---- MODULE Spec2Model ----
(***************************************************************************)
(* The workspace API of OpenClaw Mission Control (vite-workspace-api.ts):  *)
(* the connect middlewares that serve the project list, the boards, the    *)
(* standup text, the git log and the git diff, and the one mutation, the   *)
(* move of a task.  Strings that the handlers inspect (the request url,    *)
(* the project id, the commit hash) are sequences of one-character tokens; *)
(* timestamps are the millisecond readings of the server clock, whose ISO  *)
(* rendering (toISOString) orders as the readings do.                      *)
(***************************************************************************)
EXTENDS Integers, Sequences, FiniteSets, TLC

VARIABLES
    clock,         \* the server's wall clock, in milliseconds
    board,         \* content of projects/<BoardId>/board.json
    projectsFile,  \* content of state/projects.json
    standupFile,   \* content of standup-latest.md
    reqs,          \* the POST requests whose body is still streaming in
    last,          \* what the handler that ran last did and answered
    trail,         \* the last two successful moves, older first (history)
    moves,         \* number of move requests accepted so far
    exec,          \* the execSync call the server's one thread sits in
    queue,         \* requests that reached the socket and wait for the thread
    projectBoard,  \* state.projectBoard of the browser client
    calls,         \* the client's calls that await their responses
    view,          \* a call of groupTasksByColumn: its arguments and result
    homeData,      \* state.homeData of the browser client
    host,          \* the polling host: tab, interval fields, the live timers
    parsed,        \* a call of parseStandup: its argument and result
    hist           \* what the client asked for and applied last (history)

vars == <<clock, board, projectsFile, standupFile, reqs, last, trail, moves,
          exec, queue, projectBoard, calls, view, homeData, host, parsed, hist>>

\* what the file handlers of the server leave alone
gitVars == <<exec, queue>>
uiVars == <<projectBoard, calls, view>>
homeVars == <<homeData, host, parsed, hist>>

----------------------------------------------------------------------------
(* Bounds of the model.                                                    *)

MaxIdLen == 2      \* longest project id tried on the url
MaxHashLen == 2    \* longest commit hash tried on the url
MaxClock == 3      \* last clock reading
MaxMoves == 2      \* move requests accepted in one behaviour
MaxInFlight == 2   \* move requests whose body is streaming at one time
MaxCommits == 2    \* most commits a git log prints

----------------------------------------------------------------------------
(* Strings.                                                                *)

\* Characters a url is made of: a letter that is a hex digit, an upper case
\* hex digit, a letter that is no hex digit, the allowed punctuation, the
\* dot, the path separator and a shell metacharacter.
IdChars == {"a", "_", ".", "/", ";"}
HashChars == {"a", "F", "g", "."}

SeqsUpTo(S, n) == UNION {[1..k -> S] : k \in 0..n}

RawIds == SeqsUpTo(IdChars, MaxIdLen)
RawHashes == SeqsUpTo(HashChars, MaxHashLen)

\* s.includes(t) for a two-character t
Includes2(s, c1, c2) == \E i \in 1..(Len(s) - 1) : s[i] = c1 /\ s[i + 1] = c2

\* s.replace(/^\//, "")
StripLeadingSlash(s) == IF Len(s) > 0 /\ s[1] = "/" THEN Tail(s) ELSE s

\* s.replace(/\/$/, "")
StripTrailingSlash(s) ==
    IF Len(s) > 0 /\ s[Len(s)] = "/" THEN SubSeq(s, 1, Len(s) - 1) ELSE s

\* index of the first "/" of s, 0 when there is none
FirstSlash(s) ==
    IF \E i \in 1..Len(s) : s[i] = "/"
    THEN CHOOSE i \in 1..Len(s) : s[i] = "/" /\ \A j \in 1..(i - 1) : s[j] # "/"
    ELSE 0

\* s.split("/")[0]
Part0(s) == IF FirstSlash(s) = 0 THEN s ELSE SubSeq(s, 1, FirstSlash(s) - 1)

\* s.split("/")[1]; the empty string stands for undefined too, both are falsy
Part1(s) ==
    IF FirstSlash(s) = 0 THEN <<>>
    ELSE Part0(SubSeq(s, FirstSlash(s) + 1, Len(s)))


\* path.join drops the empty and the "." segments of a path: the segments of s
RECURSIVE Segments(_)
Segments(s) ==
    IF s = <<>> THEN <<>>
    ELSE LET k == FirstSlash(s)
             head == IF k = 0 THEN s ELSE SubSeq(s, 1, k - 1)
             rest == IF k = 0 THEN <<>> ELSE SubSeq(s, k + 1, Len(s))
         IN  IF head = <<>> \/ head = <<".">>
             THEN Segments(rest)
             ELSE <<head>> \o Segments(rest)

----------------------------------------------------------------------------
(* Documents of the workspace.                                             *)

\* an optional field that is absent (undefined, falsy)
Absent == -1

\* null, the value of a field that holds nothing
Null == [null |-> TRUE]

\* a string in a field that can be null as well
Text(t) == [text |-> t]

NoFile == [nofile |-> TRUE]        \* readFileSync throws ENOENT
Garbage == [raw |-> "garbage"]     \* a file that is no JSON
Partial == [raw |-> "partial"]     \* a truncated, partly written document

\* JSON.parse(data) returns a board document
IsBoardDoc(d) == "tasks" \in DOMAIN d

\* the project whose board exists in the workspace
BoardId == <<"a">>

TaskIds == {"t1", "t2"}
TaskIdInputs == TaskIds \cup {"tx"}
NewStates == {"in-progress", "done", "completed"}

Task(id, state, updated, completed) ==
    [id |-> id, title |-> id, state |-> state, updated |-> updated,
     completed |-> completed, comments |-> <<"c1">>, reviewNotes |-> "notes"]

\* the board document the workspace starts with: one task never moved, one
\* task completed in the past
InitDoc ==
    [projectId |-> BoardId, lastUpdated |-> 0,
     tasks |-> <<Task("t1", "todo", Absent, Absent), Task("t2", "done", 0, 0)>>]

ProjectsDoc ==
    [projects |-> <<[id |-> BoardId, name |-> "A", status |-> "active"]>>,
     archived |-> <<>>]

StandupText == [text |-> "standup"]

\* fs.readFileSync(path.join(WORKSPACE, `projects/${projectId}/board.json`))
BoardFile(projectId) ==
    IF Segments(projectId) = <<BoardId>> THEN board ELSE NoFile

----------------------------------------------------------------------------
(* What a handler did: the response it ended with and its side effects.    *)

NoMove == [taskId |-> "", newState |-> "", pre |-> NoFile, t0 |-> 0]

Outcome(op, projectId, hash, status, body, reads, writes, spawns) ==
    [op |-> op, projectId |-> projectId, hash |-> hash, status |-> status,
     body |-> body, reads |-> reads, writes |-> writes, spawns |-> spawns,
     move |-> NoMove]

ErrorBody(msg) == [error |-> msg]

----------------------------------------------------------------------------
(* GET /api/projects and GET /api/standup.                                 *)

ProjectsDefault == [projects |-> <<>>, archived |-> <<>>]
StandupDefault == [content |-> ""]

ProjectsResult(file) ==
    IF file = NoFile
    THEN Outcome("projects", <<>>, <<>>, 404, ProjectsDefault, 1, 0, 0)
    ELSE Outcome("projects", <<>>, <<>>, 200, file, 1, 0, 0)

StandupResult(file) ==
    IF file = NoFile
    THEN Outcome("standup", <<>>, <<>>, 404, StandupDefault, 1, 0, 0)
    ELSE Outcome("standup", <<>>, <<>>, 200, [content |-> file], 1, 0, 0)

GetProjects ==
    /\ last' = ProjectsResult(projectsFile)
    /\ UNCHANGED <<clock, board, projectsFile, standupFile, reqs, trail, moves>>
    /\ UNCHANGED <<gitVars, uiVars, homeVars>>

GetStandup ==
    /\ last' = StandupResult(standupFile)
    /\ UNCHANGED <<clock, board, projectsFile, standupFile, reqs, trail, moves>>
    /\ UNCHANGED <<gitVars, uiVars, homeVars>>

----------------------------------------------------------------------------
(* GET /api/board/<projectId>.                                             *)

\* req.url?.replace(/^\//, "").replace(/\/$/, "") || ""
UrlPath(url) == StripTrailingSlash(StripLeadingSlash(url))

\* !projectId || projectId.includes("..")
InvalidProjectId(projectId) ==
    projectId = <<>> \/ Includes2(projectId, ".", ".")

\* variant: the read error is passed on instead of the empty board
BoardDefaultError == [error |-> "ENOENT"]

BoardDefault == [tasks |-> <<>>]

\* variant: the board file is read before the project id is looked at
GetBoardResultReadFirst(url) ==
    LET projectId == UrlPath(url)
        file == BoardFile(projectId)
    IN  IF InvalidProjectId(projectId)
        THEN Outcome("board", projectId, <<>>, 400,
                     ErrorBody("Invalid project ID"), 1, 0, 0)
        ELSE IF file = NoFile
        THEN Outcome("board", projectId, <<>>, 404, BoardDefault, 1, 0, 0)
        ELSE Outcome("board", projectId, <<>>, 200, file, 1, 0, 0)

GetBoardResult(url) ==
    LET projectId == UrlPath(url)
        file == BoardFile(projectId)
    IN  IF InvalidProjectId(projectId)
        THEN Outcome("board", projectId, <<>>, 400,
                     ErrorBody("Invalid project ID"), 0, 0, 0)
        ELSE IF file = NoFile
        THEN Outcome("board", projectId, <<>>, 404, BoardDefault, 1, 0, 0)
        ELSE Outcome("board", projectId, <<>>, 200, file, 1, 0, 0)

GetBoard(url) ==
    /\ last' = GetBoardResult(url)
    /\ UNCHANGED <<clock, board, projectsFile, standupFile, reqs, trail, moves>>
    /\ UNCHANGED <<gitVars, uiVars, homeVars>>

----------------------------------------------------------------------------
(* GET /api/git-log/<projectId>.                                           *)

\* What the git subprocesses of one request do.  "fail" is an execSync that
\* throws (git missing, a non-zero exit, the timeout); otherwise git log
\* prints one line per commit, newest first, and the git diff-tree of each
\* commit either throws (treeOk = FALSE) or prints `files` file names.
CommitLines ==
    [hash : {<<"a">>, <<"F">>}, treeOk : BOOLEAN, files : {0, 2}]

GitLogFail == [ok |-> FALSE, lines |-> <<>>]

GitLogRuns ==
    {GitLogFail} \cup
    {[ok |-> TRUE, lines |-> l] : l \in SeqsUpTo(CommitLines, MaxCommits)}

\* variant: a commit whose git diff-tree throws is given up (return null)
CommitOfDropped(line) ==
    IF line.treeOk THEN [hash |-> line.hash, filesChanged |-> line.files]
    ELSE Null

\* the callback of commits.map(...): filesChanged stays 0 when the
\* execSync of git diff-tree throws
CommitOf(line) ==
    [hash |-> line.hash, filesChanged |-> IF line.treeOk THEN line.files ELSE 0]

\* .filter(Boolean)
RECURSIVE FilterBoolean(_)
FilterBoolean(s) ==
    IF s = <<>> THEN <<>>
    ELSE IF Head(s) = Null THEN FilterBoolean(Tail(s))
    ELSE <<Head(s)>> \o FilterBoolean(Tail(s))

\* variant: the failure of git log is passed on as an error
GitLogDegradedError == [error |-> "git log failed"]

\* the answer when git log throws
GitLogDegraded == [commits |-> <<>>, warning |-> "No git history available"]

GitLogResult(url, run) ==
    LET projectId == UrlPath(url)
    IN  IF InvalidProjectId(projectId)
        THEN Outcome("git-log", projectId, <<>>, 400,
                     ErrorBody("Invalid project ID"), 0, 0, 0)
        ELSE IF ~run.ok
        THEN Outcome("git-log", projectId, <<>>, 200, GitLogDegraded, 0, 0, 1)
        ELSE Outcome("git-log", projectId, <<>>, 200,
                     [commits |-> FilterBoolean(
                         [i \in 1..Len(run.lines) |-> CommitOf(run.lines[i])])],
                     0, 0, 1 + Len(run.lines))

GitLog(url, run) ==
    /\ last' = GitLogResult(url, run)
    /\ UNCHANGED <<clock, board, projectsFile, standupFile, reqs, trail, moves>>
    /\ UNCHANGED <<gitVars, uiVars, homeVars>>

----------------------------------------------------------------------------
(* GET /api/git-diff/<projectId>/<hash>.                                   *)

HexChars == {"a", "F"}

\* variant: the pattern without its i flag
IsHexLowerCase(hash) == Len(hash) > 0 /\ \A i \in 1..Len(hash) : hash[i] = "a"

\* /^[a-f0-9]+$/i.test(hash)
IsHex(hash) == Len(hash) > 0 /\ \A i \in 1..Len(hash) : hash[i] \in HexChars

\* !projectId || !hash || projectId.includes("..") || !/^[a-f0-9]+$/i.test(hash)
InvalidDiffParams(projectId, hash) ==
    projectId = <<>> \/ hash = <<>> \/ Includes2(projectId, ".", ".") \/ ~IsHex(hash)

\* variant: the failure of git show is passed on as an error
DiffSentinelError == [error |-> "git show failed"]

\* the answer when git show throws
DiffSentinel == [diff |-> "Diff not available"]

\* git show: it throws, or prints the diff text (empty or not)
GitShowRuns == {[ok |-> FALSE, text |-> ""], [ok |-> TRUE, text |-> ""],
                [ok |-> TRUE, text |-> "patch"]}

GitDiffResult(url, run) ==
    LET parts == StripLeadingSlash(url)
        projectId == Part0(parts)
        hash == Part1(parts)
    IN  IF InvalidDiffParams(projectId, hash)
        THEN Outcome("git-diff", projectId, hash, 400,
                     ErrorBody("Invalid parameters"), 0, 0, 0)
        ELSE IF ~run.ok
        THEN Outcome("git-diff", projectId, hash, 404, DiffSentinel, 0, 0, 1)
        ELSE Outcome("git-diff", projectId, hash, 200, [diff |-> run.text], 0, 0, 1)

GitDiff(url, run) ==
    /\ last' = GitDiffResult(url, run)
    /\ UNCHANGED <<clock, board, projectsFile, standupFile, reqs, trail, moves>>
    /\ UNCHANGED <<gitVars, uiVars, homeVars>>

----------------------------------------------------------------------------
(* The column of a task (groupTasksByColumn).                              *)

\* variant: only the names of the columns are known
ClassifyNoAlias(state) ==
    IF state \in {"done", "in-progress", "review", "planned"} THEN state
    ELSE "backlog"

Classify(state) ==
    IF state = "done" \/ state = "completed" THEN "done"
    ELSE IF state = "in-progress" \/ state = "active" THEN "in-progress"
    ELSE IF state = "review" \/ state = "in-review" THEN "review"
    ELSE IF state = "planned" THEN "planned"
    ELSE "backlog"

----------------------------------------------------------------------------
(* POST /api/board/<projectId>/move.                                       *)

\* urlPath.match(/^(.+)\/move$/): "move" is one token of the url
MoveMatch(urlPath) ==
    /\ Len(urlPath) >= 3
    /\ urlPath[Len(urlPath) - 1] = "/"
    /\ urlPath[Len(urlPath)] = "move"

\* match[1]
MoveProjectId(urlPath) == SubSeq(urlPath, 1, Len(urlPath) - 2)

\* projectId.includes("..")
InvalidMoveProjectId(projectId) == Includes2(projectId, ".", ".")

Slots == 1..MaxInFlight

\* n numbers the accepted requests in the order of their arrival (history)
Idle == [phase |-> "idle", projectId |-> <<>>, pending |-> <<>>, body |-> <<>>,
         n |-> 0]

\* The request body: JSON.stringify({taskId, newState}) is the one chunk
\* <<taskId, newState>>; anything else is no JSON.
Payloads ==
    {<< <<"junk">> >>} \cup {<< <<t, s>> >> : t \in TaskIdInputs, s \in NewStates}

\* JSON.parse(body) succeeds
BodyParses(body) == Len(body) = 1 /\ Len(body[1]) = 2

\* boardData.tasks?.find((t) => t.id === taskId): its index, 0 when undefined
FindTask(doc, taskId) ==
    IF \E i \in 1..Len(doc.tasks) : doc.tasks[i].id = taskId
    THEN CHOOSE i \in 1..Len(doc.tasks) :
            /\ doc.tasks[i].id = taskId
            /\ \A j \in 1..(i - 1) : doc.tasks[j].id # taskId
    ELSE 0

\* variant: every move to done stamps the completion again
CompletedOnMoveOverwrite(task, newState, now) ==
    IF newState = "done" THEN now ELSE task.completed

\* if (newState === "done") task.completed = task.completed || now
CompletedOnMove(task, newState, now) ==
    IF newState = "done"
    THEN IF task.completed # Absent THEN task.completed ELSE now
    ELSE task.completed

\* variant: the task's updated stamp is not refreshed
MovedTaskStaleStamp(task, newState, ta, tb) ==
    [task EXCEPT !.state = newState,
                 !.completed = CompletedOnMove(task, newState, tb)]

\* task.state = newState; task.updated = now; the completion stamp
MovedTask(task, newState, ta, tb) ==
    [task EXCEPT !.state = newState,
                 !.updated = ta,
                 !.completed = CompletedOnMove(task, newState, tb)]

\* variant: the board's stamp is left as it was
StampBoardKept(doc, now) == doc

\* boardData.lastUpdated = now
StampBoard(doc, now) == [doc EXCEPT !.lastUpdated = now]

\* variant: the move is applied to a copy of the board read when the server
\* started, not to the file as it is now
MovedBoardStale(doc, taskId, newState, ta, tb, tc) ==
    LET i == FindTask(InitDoc, taskId)
    IN  StampBoard([InitDoc EXCEPT !.tasks[i] = MovedTask(InitDoc.tasks[i], newState, ta, tb)],
                   tc)

\* the document the handler writes: ta, tb, tc are its three clock readings
MovedBoard(doc, taskId, newState, ta, tb, tc) ==
    LET i == FindTask(doc, taskId)
    IN  StampBoard([doc EXCEPT !.tasks[i] = MovedTask(doc.tasks[i], newState, ta, tb)],
                   tc)

\* fs.writeFileSync(boardPath, text) opens the file with O_TRUNC and then
\* writes: it succeeds ("ok"), throws at the open and leaves the file as it
\* was ("eacces"), throws after the truncation ("enospc"), or the process
\* dies between the truncation and the end of the write ("crash").
WriteOutcomes == {"ok", "eacces", "enospc", "crash"}

FileAfterWrite(old, new, wo) ==
    CASE wo = "ok" -> new
      [] wo = "eacces" -> old
      [] OTHER -> Partial

MoveOutcome(projectId, status, body, reads, writes, taskId, newState, pre, t0) ==
    [Outcome("move", projectId, <<>>, status, body, reads, writes, 0)
        EXCEPT !.move = [taskId |-> taskId, newState |-> newState,
                         pre |-> pre, t0 |-> t0]]

\* the callback reaches fs.writeFileSync
MoveWrites(projectId, body) ==
    /\ BodyParses(body)
    /\ IsBoardDoc(BoardFile(projectId))
    /\ FindTask(BoardFile(projectId), body[1][1]) # 0

\* The req.on("end") callback: the response, the file it leaves and the
\* clock reading it ends at.
MoveEndResult(projectId, body, wo, ta, tb, tc) ==
    LET file == BoardFile(projectId)
        taskId == body[1][1]
        newState == body[1][2]
    IN  IF ~BodyParses(body)
        THEN [out |-> MoveOutcome(projectId, 500, ErrorBody("SyntaxError"), 0, 0,
                                  "", "", file, ta),
              file |-> file, clock |-> ta, crashed |-> FALSE]
        ELSE IF ~IsBoardDoc(file)
        THEN [out |-> MoveOutcome(projectId, 500, ErrorBody("Error"), 1, 0,
                                  taskId, newState, file, ta),
              file |-> file, clock |-> ta, crashed |-> FALSE]
        ELSE IF FindTask(file, taskId) = 0
        THEN [out |-> MoveOutcome(projectId, 200, file, 1, 0,
                                  taskId, newState, file, ta),
              file |-> file, clock |-> ta, crashed |-> FALSE]
        ELSE LET new == MovedBoard(file, taskId, newState, ta, tb, tc)
             IN  [out |-> IF wo = "ok"
                          THEN MoveOutcome(projectId, 200, new, 1, 1,
                                           taskId, newState, file, ta)
                          ELSE IF wo = "crash"
                          THEN [MoveOutcome(projectId, 0, ErrorBody("no response"), 1, 1,
                                            taskId, newState, file, ta)
                                   EXCEPT !.op = "crash"]
                          ELSE MoveOutcome(projectId, 500, ErrorBody("Error"), 1, 1,
                                           taskId, newState, file, ta),
                  file |-> FileAfterWrite(file, new, wo),
                  clock |-> tc,
                  crashed |-> (wo = "crash")]

\* The middleware itself: no route match, a rejected id, or the listeners
\* on the body are registered and the request waits for its body.
PostMoveStart(r, url, payload) ==
    LET urlPath == UrlPath(url)
        projectId == MoveProjectId(urlPath)
    IN  /\ reqs[r].phase = "idle"
        /\ \A q \in 1..(r - 1) : reqs[q].phase # "idle"
        /\ IF ~MoveMatch(urlPath)
           THEN /\ last' = Outcome("next", <<>>, <<>>, 0, ErrorBody("next()"), 0, 0, 0)
                /\ UNCHANGED <<reqs, moves>>
           ELSE IF InvalidMoveProjectId(projectId)
           THEN /\ last' = Outcome("move", projectId, <<>>, 400,
                                   ErrorBody("Invalid project ID"), 0, 0, 0)
                /\ UNCHANGED <<reqs, moves>>
           ELSE /\ moves < MaxMoves
                /\ reqs' = [reqs EXCEPT ![r] = [phase |-> "body", projectId |-> projectId,
                                                pending |-> payload, body |-> <<>>,
                                                n |-> moves + 1]]
                /\ last' = Outcome("accept", projectId, <<>>, 0,
                                   ErrorBody("pending"), 0, 0, 0)
                /\ moves' = moves + 1
        /\ UNCHANGED <<clock, board, projectsFile, standupFile, trail>>
        /\ UNCHANGED <<gitVars, uiVars, homeVars>>

\* req.on("data"): body += chunk.toString()
PostMoveData(r) ==
    /\ reqs[r].phase = "body"
    /\ reqs[r].pending # <<>>
    /\ reqs' = [reqs EXCEPT ![r].body = Append(@, Head(reqs[r].pending)),
                            ![r].pending = Tail(@)]
    /\ UNCHANGED <<clock, board, projectsFile, standupFile, last, trail, moves>>
    /\ UNCHANGED <<gitVars, uiVars, homeVars>>

\* the requests other than r whose body is streaming
InFlight(r) == {reqs[q].n : q \in {q \in Slots : q # r /\ reqs[q].phase = "body"}}

\* one successful move, as the history keeps it: request n wrote while the
\* requests `others` were in flight
MoveSummary(out, n, others) ==
    LET i == FindTask(out.move.pre, out.move.taskId)
    IN  [n |-> n, others |-> others,
         taskId |-> out.move.taskId,
         from |-> out.move.pre.tasks[i].state,
         to |-> out.move.newState,
         before |-> out.move.pre.tasks[i].updated,
         after |-> out.body.tasks[i].updated,
         stamp |-> out.body.lastUpdated,
         at |-> out.move.t0]

\* the history keeps the last two successful moves
LastTwo(s) == IF Len(s) > 2 THEN SubSeq(s, Len(s) - 1, Len(s)) ELSE s

\* req.on("end"): the read-modify-write, all of it synchronous
PostMoveEnd(r, wo, d1, d2) ==
    /\ reqs[r].phase = "body"
    /\ reqs[r].pending = <<>>
    /\ clock + d1 + d2 <= MaxClock
    /\ (MoveWrites(reqs[r].projectId, reqs[r].body) /\ wo = "ok") \/ (d1 = 0 /\ d2 = 0)
    /\ MoveWrites(reqs[r].projectId, reqs[r].body) \/ wo = "ok"
    /\ LET res == MoveEndResult(reqs[r].projectId, reqs[r].body, wo,
                                clock, clock + d1, clock + d1 + d2)
       IN  /\ last' = res.out
           /\ board' = IF Segments(reqs[r].projectId) = <<BoardId>>
                       THEN res.file ELSE board
           /\ clock' = res.clock
           /\ reqs' = IF res.crashed THEN [s \in Slots |-> Idle]
                      ELSE [reqs EXCEPT ![r] = Idle]
           /\ trail' = IF res.out.op = "move" /\ res.out.writes = 1
                          /\ res.out.status = 200
                       THEN LastTwo(Append(trail, MoveSummary(res.out, reqs[r].n, InFlight(r))))
                       ELSE trail
    /\ UNCHANGED <<projectsFile, standupFile, moves>>
    /\ UNCHANGED <<gitVars, uiVars, homeVars>>

\* a millisecond passes
Tick ==
    /\ clock < MaxClock
    /\ clock' = clock + 1
    /\ UNCHANGED <<board, projectsFile, standupFile, reqs, last, trail, moves>>
    /\ UNCHANGED <<gitVars, uiVars, homeVars>>

----------------------------------------------------------------------------
(* The server with one writer after another and with concurrent writers.   *)

InitBoards == {NoFile, Garbage, InitDoc}

\* the server's thread is in no execSync call
NoExec == [kind |-> "none"]

\* defaultProjectBoard()
defaultProjectBoard ==
    [project |-> Null, board |-> Null, commits |-> <<>>, loading |-> FALSE,
     error |-> Null, commitDetailHash |-> Null, commitDiff |-> Null,
     commitDiffLoading |-> FALSE]

\* groupTasksByColumn has not been called
NoView == [called |-> FALSE]

\* defaultHomeData()
defaultHomeData ==
    [projects |-> <<>>, reviewQueue |-> <<>>, standupContent |-> "",
     loading |-> FALSE, error |-> Null]

\* null in an interval field; setInterval returns positive ids only
NoTimer == 0

\* the pollers of the host
Pollers == {"nodes", "logs", "debug", "home", "projectBoard"}

\* The host as the app creates it: every interval field null, no timer of
\* the browser alive.  `interval` holds nodesPollInterval, logsPollInterval,
\* debugPollInterval, homePollInterval and projectBoardPollInterval;
\* `timers` is the set of the intervals that setInterval has created and
\* clearInterval has not cleared, `ids` the number of ids handed out.
InitHost ==
    [tab |-> "home", activeProjectId |-> Null,
     interval |-> [k \in Pollers |-> NoTimer],
     timers |-> {}, ids |-> 0]

\* parseStandup has not been called
NoParse == [called |-> FALSE]

\* nothing asked for, nothing applied, no polling event
NoHistory ==
    [asked |-> Null, applied |-> Null, boardFrom |-> "none", loadedFrom |-> Null,
     event |-> [kind |-> "none", poller |-> "none", load |-> "none",
                change |-> FALSE]]

\* the home view has loaded nothing and no poller runs
InitHome ==
    /\ homeData = defaultHomeData
    /\ host = InitHost
    /\ parsed = NoParse
    /\ hist = NoHistory

\* no git request is being served, the client has loaded nothing and has
\* rendered nothing
InitRest ==
    /\ exec = NoExec
    /\ queue = {}
    /\ projectBoard = defaultProjectBoard
    /\ calls = {}
    /\ view = NoView
    /\ InitHome

NoOutcome == Outcome("none", <<>>, <<>>, 0, ErrorBody("none"), 0, 0, 0)

Init ==
    /\ clock = 1
    /\ board \in InitBoards
    /\ projectsFile = ProjectsDoc
    /\ standupFile = StandupText
    /\ reqs = [s \in Slots |-> Idle]
    /\ last = NoOutcome
    /\ trail = <<>>
    /\ moves = 0
    /\ InitRest

BoardUrl == <<"/">> \o BoardId
MoveUrl == BoardUrl \o <<"/", "move">>

\* the POST requests, url and body: a move on the board that exists, with
\* every body; an id with ".."; a POST that is no move
MoveRequests ==
    {<<MoveUrl, payload>> : payload \in Payloads}
    \cup {<< <<"/", ".", ".", "/", "move">>, << <<"t1", "done">> >> >>,
          <<BoardUrl, << <<"t1", "done">> >> >>}

Next ==
    \/ \E rq \in MoveRequests : PostMoveStart(1, rq[1], rq[2])
    \/ PostMoveData(1)
    \/ \E r \in {1}, wo \in WriteOutcomes, d1 \in 0..1, d2 \in 0..1 :
          PostMoveEnd(r, wo, d1, d2)
    \/ GetBoard(BoardUrl)
    \/ Tick

Spec == Init /\ [][Next]_vars

----------------------------------------------------------------------------
(* Concurrent writers: the bodies of several move requests stream in at    *)
(* the same time and every write succeeds.                                 *)

RacePayloads ==
    {<< <<"t1", "done">> >>, << <<"t2", "in-progress">> >>, << <<"t1", "in-progress">> >>}

NextRace ==
    \/ \E r \in Slots, payload \in RacePayloads : PostMoveStart(r, MoveUrl, payload)
    \/ \E r \in Slots : PostMoveData(r)
    \/ \E r \in Slots, d1 \in 0..1, d2 \in 0..1 : PostMoveEnd(r, "ok", d1, d2)
    \/ GetBoard(BoardUrl)
    \/ Tick

SpecRace == Init /\ [][NextRace]_vars

----------------------------------------------------------------------------
(* One request after another, over every url the bounds allow.             *)

\* the workspace has all its documents, none of them, or a board that is
\* no JSON
InitApi ==
    /\ clock = 1
    /\ \E w \in {<<InitDoc, ProjectsDoc, StandupText>>, <<NoFile, NoFile, NoFile>>,
                <<Garbage, ProjectsDoc, StandupText>>} :
          board = w[1] /\ projectsFile = w[2] /\ standupFile = w[3]
    /\ reqs = [s \in Slots |-> Idle]
    /\ last = NoOutcome
    /\ trail = <<>>
    /\ moves = 0
    /\ InitRest

\* No request is in flight and the last thing that happened is the start of
\* the server or a move that wrote the board: a request that changes no file
\* leaves nothing behind but its answer, so the next request finds what it
\* found.
Quiet ==
    /\ \A r \in Slots : reqs[r].phase = "idle"
    /\ last.op = "none" \/ (last.op = "move" /\ last.writes = 1)

GetUrls == {<<"/">> \o i \o t : i \in RawIds, t \in {<<>>, <<"/">>}}

PostUrls ==
    {<<"/">> \o i \o <<"/", "move">> \o t : i \in RawIds, t \in {<<>>, <<"/">>}}
    \cup {<<"/">> \o i : i \in RawIds}

DiffIds == {<<>>, <<"a">>, <<"_">>, <<".", ".">>, <<".">>, <<";">>}

DiffUrls ==
    {<<"/">> \o i \o <<"/">> \o h \o t :
        i \in DiffIds, h \in RawHashes, t \in {<<>>, <<"/", "a">>}}
    \cup {<<"/">> \o i : i \in DiffIds}

ApiLogRuns == {GitLogFail, [ok |-> TRUE, lines |-> <<>>],
               [ok |-> TRUE, lines |-> <<[hash |-> <<"a">>, treeOk |-> TRUE, files |-> 2]>>]}

ApiPayload == << <<"t1", "done">> >>

NextApi ==
    \/ Quiet /\ GetProjects
    \/ Quiet /\ GetStandup
    \/ \E url \in GetUrls : Quiet /\ GetBoard(url)
    \/ \E url \in GetUrls, run \in ApiLogRuns : Quiet /\ GitLog(url, run)
    \/ \E url \in DiffUrls, run \in GitShowRuns : Quiet /\ GitDiff(url, run)
    \/ \E url \in PostUrls : Quiet /\ PostMoveStart(1, url, ApiPayload)
    \/ PostMoveData(1)
    \/ PostMoveEnd(1, "ok", 0, 0)

SpecApi == InitApi /\ [][NextApi]_vars

----------------------------------------------------------------------------
(* Properties of the endpoints, one request at a time (SpecApi).           *)

HasDotDot(id) == \E i \in 1..(Len(id) - 1) : id[i] = "." /\ id[i + 1] = "."

\* the project id fails the check of the endpoint that got it
FailsIdCheck(o) ==
    \/ o.op \in {"board", "git-log", "git-diff"} /\ (o.projectId = <<>> \/ HasDotDot(o.projectId))
    \/ o.op = "move" /\ HasDotDot(o.projectId)

\* C1: on get board, move task, list commits and get diff, a request whose
\* project id fails the endpoint's check is answered 400 with an error object,
\* and the handler has then read no file, written no file, started no
\* subprocess and left no request waiting for a body.
C1_RejectedWithoutSideEffects ==
    /\ FailsIdCheck(last) => last.status = 400
    /\ last.status = 400 =>
          /\ "error" \in DOMAIN last.body
          /\ last.reads = 0 /\ last.writes = 0 /\ last.spawns = 0
          /\ \A r \in Slots : reqs[r].phase = "idle"

C1_Witness ==
    /\ last.op = "board" /\ last.projectId = <<".", ".">> /\ last.status = 400
    /\ board = InitDoc

\* the characters of the model's urls that are in [A-Za-z0-9_-]
AllowedIdChars == {"a", "F", "g", "_"}

\* validateProjectId of the specification
WellFormedId(id) == id # <<>> /\ \A i \in 1..Len(id) : id[i] \in AllowedIdChars

\* C2: on the get-board, move-task, list-commits and get-diff paths a project
\* id is rejected when it is empty, contains "..", contains a path separator
\* or contains a character outside [A-Za-z0-9_-], and is accepted otherwise.
C2_IdValidation ==
    /\ last.op \in {"board", "git-log", "move", "accept"} =>
          (last.status = 400 <=> ~WellFormedId(last.projectId))
    /\ last.op = "git-diff" /\ ~WellFormedId(last.projectId) => last.status = 400

\* C3: a get-diff request whose hash is empty or has a character that is no
\* hexadecimal digit is answered 400 and no subprocess is started; a non-empty
\* hash of hexadecimal digits of either case passes, and git show is run.
C3_HashCheck ==
    last.op = "git-diff" =>
        LET hex == last.hash # <<>> /\ \A i \in 1..Len(last.hash) : last.hash[i] \in {"a", "F"}
        IN  /\ ~hex => last.status = 400 /\ last.spawns = 0 /\ "error" \in DOMAIN last.body
            /\ hex /\ ~FailsIdCheck(last) => last.status # 400 /\ last.spawns = 1

C3_Witness ==
    /\ last.op = "git-diff" /\ last.projectId = <<"a">> /\ last.hash = <<"F", "g">>
    /\ last.status = 400

\* C7: a read of a document that is missing is answered, with the empty
\* default: {projects: [], archived: []} for the project list, {tasks: []}
\* for the board of any project id that passes the check, {content: ""} for
\* the standup.
C7_MissingDocumentDefaults ==
    /\ last.op = "projects" /\ projectsFile = NoFile =>
          last.body = [projects |-> <<>>, archived |-> <<>>]
    /\ last.op = "standup" /\ standupFile = NoFile => last.body = [content |-> ""]
    /\ last.op = "board" /\ ~FailsIdCheck(last) /\ BoardFile(last.projectId) = NoFile =>
          last.body = [tasks |-> <<>>]
    /\ last.op \in {"projects", "standup", "board"} => last.status \in {200, 400, 404}

C7_Witness ==
    /\ last.op = "board" /\ last.projectId = BoardId /\ board = NoFile
    /\ last.status = 404

----------------------------------------------------------------------------
(* Properties of the move of a task, one writer (Spec).                    *)

\* the last handler was a move that wrote the board and answered 200
MoveSucceeded == last.op = "move" /\ last.status = 200 /\ last.writes = 1

\* the last handler was a move that answered without a successful write
MoveFailed ==
    /\ last.op = "move"
    /\ last.status = 500 \/ (last.status = 200 /\ last.writes = 0)

\* C4: the board file never holds a partly written document: a reader gets
\* the complete document from before a write or the complete one after it,
\* and after a crash in the middle of a write the file is what it was before.
C4_AtomicWrite ==
    /\ board # Partial
    /\ last.op = "board" => last.body # Partial
    /\ last.op = "crash" => board = last.move.pre

\* C5: a successful move of a task on the board sets the task's state to
\* newState and its updated stamp to now, sets its completed stamp to now when
\* newState is done or completed and the task had none, sets lastUpdated to
\* now, stores the whole board and answers with it.
C5_MoveSetsFields ==
    MoveSucceeded =>
        LET i == FindTask(last.move.pre, last.move.taskId)
            old == last.move.pre.tasks[i]
            new == last.body.tasks[i]
            now(t) == last.move.t0 <= t /\ t <= clock
        IN  /\ new.state = last.move.newState
            /\ now(new.updated)
            /\ last.move.newState \in {"done", "completed"} /\ old.completed = Absent
                  => now(new.completed)
            /\ now(last.body.lastUpdated)
            /\ board = last.body

\* C6: a move that fails (no such task, no board document or one that is no
\* JSON, a body that is no JSON, a failed write) changes nothing: the board
\* file is what it was before the request, and none is created.
C6_FailedMoveChangesNothing == MoveFailed => board = last.move.pre

\* C9: every successful move stamps the board with the time of the write, and
\* from one successful write to the next lastUpdated does not go back.
C9_LastUpdatedMonotone ==
    /\ MoveSucceeded =>
          /\ last.move.t0 <= last.body.lastUpdated
          /\ last.body.lastUpdated <= clock
          /\ last.body.lastUpdated = trail[Len(trail)].stamp
    /\ Len(trail) = 2 => trail[1].stamp <= trail[2].stamp

C9_Witness == Len(trail) = 2 /\ trail[1].stamp < trail[2].stamp

\* the last two successful moves took one task from A to B and back to A
RoundTrip ==
    /\ Len(trail) = 2
    /\ trail[1].taskId = trail[2].taskId
    /\ trail[2].from = trail[1].to
    /\ trail[2].to = trail[1].from

\* the state the board now holds for the task of the last successful move
StateNow == board.tasks[FindTask(board, trail[Len(trail)].taskId)].state

\* C10 as stated: after a round trip the task is in the column of A again,
\* and each of the two moves made its updated stamp strictly later.
C10_RoundTripStrict ==
    RoundTrip /\ IsBoardDoc(board) =>
        /\ Classify(StateNow) = Classify(trail[1].from)
        /\ trail[1].before < trail[1].after
        /\ trail[2].before < trail[2].after

\* C10 as amended: after a round trip the task is in the column of A again,
\* each of the two moves set its updated stamp to the clock reading of that
\* move, and the second stamp is not earlier than the first.
C10_RoundTrip ==
    RoundTrip /\ IsBoardDoc(board) =>
        /\ Classify(StateNow) = Classify(trail[1].from)
        /\ trail[1].after = trail[1].at
        /\ trail[2].after = trail[2].at
        /\ trail[2].before = trail[1].after
        /\ trail[1].after <= trail[2].after

\* a round trip between two columns, both moves within one millisecond
C10_Witness ==
    /\ RoundTrip /\ IsBoardDoc(board)
    /\ Classify(trail[1].from) # Classify(trail[1].to)
    /\ trail[2].after = trail[2].before

----------------------------------------------------------------------------
(* Properties of concurrent moves (SpecRace).                              *)

\* the requests of the last two successful moves were in flight together:
\* the later one had been accepted when the earlier one wrote
Overlapped ==
    /\ Len(trail) = 2
    /\ trail[2].n \in trail[1].others

TaskNow(taskId) == board.tasks[FindTask(board, taskId)]

\* C8 as stated: when two move requests on different tasks overlap, the write
\* that lands last wins and the update of the other request is lost.
C8_LastWriteWins ==
    /\ Overlapped /\ IsBoardDoc(board)
    /\ trail[1].taskId # trail[2].taskId
    /\ trail[1].from # trail[1].to
    => TaskNow(trail[1].taskId).state # trail[1].to

\* C8 as amended: the read-modify-write cycles of concurrent move requests do
\* not interleave; each cycle reads what the cycle before it wrote, and the
\* board keeps the update of both requests.
C8_NoLostUpdate ==
    IsBoardDoc(board) /\ trail # <<>> =>
        /\ TaskNow(trail[Len(trail)].taskId).state = trail[Len(trail)].to
        /\ Len(trail) = 2 /\ trail[1].taskId # trail[2].taskId =>
              /\ TaskNow(trail[1].taskId).state = trail[1].to
              /\ TaskNow(trail[1].taskId).updated = trail[1].after
        /\ Len(trail) = 2 /\ trail[1].taskId = trail[2].taskId =>
              /\ trail[2].from = trail[1].to
              /\ trail[2].before = trail[1].after

C8_Witness ==
    /\ Overlapped /\ IsBoardDoc(board)
    /\ trail[1].taskId # trail[2].taskId
    /\ trail[1].from # trail[1].to

----------------------------------------------------------------------------
(* The git endpoints at work.  execSync runs the command through /bin/sh   *)
(* and does not return before the child has exited or its timeout has      *)
(* killed it; the server has one thread, so until then no callback of any  *)
(* other request runs.  Requests keep arriving at the socket meanwhile.    *)

\* timeout of the execSync calls, in seconds
LogTimeout == 5
TreeTimeout == 3
ShowTimeout == 5

Timeout(kind) ==
    IF kind = "tree" THEN TreeTimeout
    ELSE IF kind = "show" THEN ShowTimeout
    ELSE LogTimeout

\* characters of a shell variable name
NameChars == {"a", "F", "g", "_"}

RECURSIVE DropName(_)
DropName(s) ==
    IF s # <<>> /\ Head(s) \in NameChars THEN DropName(Tail(s)) ELSE s

\* What /bin/sh makes of a text between double quotes: $name is replaced by
\* the value of the variable, which is unset in the server's environment.
RECURSIVE ShellExpand(_)
ShellExpand(s) ==
    IF s = <<>> THEN <<>>
    ELSE IF Head(s) = "$" /\ Len(s) > 1 /\ s[2] \in NameChars
    THEN ShellExpand(DropName(Tail(s)))
    ELSE <<Head(s)>> \o ShellExpand(Tail(s))

\* path.join(WORKSPACE, `projects/${projectId}`), as its segments below the
\* workspace
ProjectDir(projectId) == << <<"projects">> >> \o Segments(projectId)

\* execSync(`git log ... -- "${projectDir}"`), execSync(`git diff-tree ...
\* ${hash} -- "${projectDir}"`), execSync(`git show --stat --patch ${hash}`):
\* a command string, which execSync hands to the shell
Command(kind, hash, dir) ==
    [shell |-> TRUE, git |-> kind, hash |-> hash, dir |-> dir]

\* the path argument that git is started with
GitPathArg(cmd) ==
    IF cmd.shell THEN [i \in 1..Len(cmd.dir) |-> ShellExpand(cmd.dir[i])]
    ELSE cmd.dir

\* the thread enters execSync
Exec(kind, url, cmd, todo, done) ==
    [kind |-> kind, url |-> url, cmd |-> cmd, elapsed |-> 0,
     todo |-> todo, done |-> done]

\* the commit hashes of the repository, and what git log can print: up to
\* MaxCommits of them, newest first, no hash twice
LogHashes == {<<"a">>, <<"F">>}

LogOutputs ==
    {l \in SeqsUpTo(LogHashes, MaxCommits) :
        \A i, j \in 1..Len(l) : i # j => l[i] # l[j]}

\* how a child process ends: it fails (git missing, a non-zero exit), or it
\* prints the commits, the number of files, the diff text
LogEnds == {[ok |-> FALSE]} \cup {[ok |-> TRUE, out |-> l] : l \in LogOutputs}
TreeEnds == {[ok |-> FALSE], [ok |-> TRUE, files |-> 2]}
ShowEnds == GitShowRuns

\* killed at the timeout: execSync throws
Killed == [ok |-> FALSE]

\* requests a browser sends: the board, the git log of a project, of a
\* project id that the shell expands and of one that is rejected, the diff
\* of a commit and one with a hash that is rejected
GitRequests ==
    {[op |-> "board", url |-> BoardUrl],
     [op |-> "git-log", url |-> BoardUrl],
     [op |-> "git-log", url |-> <<"/", "$", "a">>],
     [op |-> "git-log", url |-> <<"/", ".", ".">>],
     [op |-> "git-diff", url |-> <<"/", "a", "/", "F">>],
     [op |-> "git-diff", url |-> <<"/", "a", "/", "g">>]}

\* most requests that wait at the socket
MaxQueue == 1

\* a request reaches the socket; the kernel accepts it whatever the thread
\* is doing
Arrive(rq) ==
    /\ rq \notin queue
    /\ Cardinality(queue) < MaxQueue
    /\ queue' = queue \cup {rq}
    /\ UNCHANGED <<clock, board, projectsFile, standupFile, reqs, last, trail,
                   moves, exec, uiVars, homeVars>>

\* The event loop runs the middleware of a waiting request, which it does
\* only when the thread is not inside a handler.
Serve(rq) ==
    /\ exec.kind = "none"
    /\ rq \in queue
    /\ queue' = queue \ {rq}
    /\ IF rq.op = "board"
       THEN /\ last' = GetBoardResult(rq.url)
            /\ exec' = exec
       ELSE IF rq.op = "git-log"
       THEN IF InvalidProjectId(UrlPath(rq.url))
            THEN /\ last' = GitLogResult(rq.url, GitLogFail)
                 /\ exec' = exec
            ELSE /\ exec' = Exec("log", rq.url,
                                 Command("log", <<>>, ProjectDir(UrlPath(rq.url))),
                                 <<>>, <<>>)
                 /\ last' = last
       ELSE IF InvalidDiffParams(Part0(StripLeadingSlash(rq.url)),
                                 Part1(StripLeadingSlash(rq.url)))
            THEN /\ last' = GitDiffResult(rq.url, Killed)
                 /\ exec' = exec
            ELSE /\ exec' = Exec("show", rq.url,
                                 Command("show", Part1(StripLeadingSlash(rq.url)), <<>>),
                                 <<>>, <<>>)
                 /\ last' = last
    /\ UNCHANGED <<clock, board, projectsFile, standupFile, reqs, trail, moves, uiVars, homeVars>>

\* a second passes while the thread waits in execSync
ExecTick ==
    /\ exec.kind # "none"
    /\ exec.elapsed < Timeout(exec.kind)
    /\ exec' = [exec EXCEPT !.elapsed = @ + 1]
    /\ UNCHANGED <<clock, board, projectsFile, standupFile, reqs, last, trail,
                   moves, queue, uiVars, homeVars>>

\* the git diff-tree of the next commit of the log output
TreeExec(url, todo, done) ==
    Exec("tree", url, Command("diff-tree", Head(todo), ProjectDir(UrlPath(url))),
         todo, done)

\* execSync returns or throws and the handler goes on, up to its next
\* execSync or to its answer
ExecContinue(end) ==
    /\ IF exec.kind = "log"
       THEN IF end.ok /\ end.out # <<>>
            THEN /\ exec' = TreeExec(exec.url, end.out, <<>>)
                 /\ last' = last
            ELSE /\ exec' = NoExec
                 /\ last' = GitLogResult(exec.url,
                               IF end.ok THEN [ok |-> TRUE, lines |-> <<>>]
                               ELSE GitLogFail)
       ELSE IF exec.kind = "tree"
       THEN LET line == [hash |-> Head(exec.todo), treeOk |-> end.ok,
                         files |-> IF end.ok THEN end.files ELSE 0]
                done == Append(exec.done, line)
            IN  IF Len(exec.todo) > 1
                THEN /\ exec' = TreeExec(exec.url, Tail(exec.todo), done)
                     /\ last' = last
                ELSE /\ exec' = NoExec
                     /\ last' = GitLogResult(exec.url, [ok |-> TRUE, lines |-> done])
       ELSE /\ exec' = NoExec
            /\ last' = GitDiffResult(exec.url,
                          IF end.ok THEN end ELSE [ok |-> FALSE, text |-> ""])
    /\ UNCHANGED <<clock, board, projectsFile, standupFile, reqs, trail, moves,
                   queue, uiVars, homeVars>>

\* the child exits before its timeout
ExecReturn(end) ==
    /\ exec.kind # "none"
    /\ exec.elapsed < Timeout(exec.kind)
    /\ \/ exec.kind = "log" /\ end \in LogEnds
       \/ exec.kind = "tree" /\ end \in TreeEnds
       \/ exec.kind = "show" /\ end \in ShowEnds
    /\ ExecContinue(end)

\* the timeout of execSync kills the child
ExecTimeout ==
    /\ exec.kind # "none"
    /\ exec.elapsed = Timeout(exec.kind)
    /\ ExecContinue(Killed)

NextGit ==
    \/ \E rq \in GitRequests : Arrive(rq)
    \/ \E rq \in GitRequests : Serve(rq)
    \/ ExecTick
    \/ \E end \in LogEnds \cup TreeEnds \cup ShowEnds : ExecReturn(end)
    \/ ExecTimeout

\* the workspace has its documents
InitGit == Init /\ board = InitDoc

SpecGit == InitGit /\ [][NextGit]_vars

----------------------------------------------------------------------------
(* Properties of the git endpoints (SpecGit).                              *)

\* C11: the git subprocesses run off the request-handling path: while the
\* subprocess of one request runs, a request that waits can be served; and
\* no subprocess runs longer than its timeout (5 s for git log and git show,
\* 3 s for the file count), after which it counts as failed.
C11_SubprocessOffRequestPath ==
    /\ exec.kind # "none" => exec.elapsed <= Timeout(exec.kind)
    /\ (exec.kind # "none" /\ queue # {}) => ENABLED (\E rq \in queue : Serve(rq))

\* C12: git log, git diff-tree and git show are started from an argument
\* list and never through a shell, so git gets the project directory as
\* the handler built it: no part of the project id is read by a shell.
C12_ArgumentListInvocation ==
    exec.kind # "none" =>
        /\ ~exec.cmd.shell
        /\ GitPathArg(exec.cmd) = exec.cmd.dir

\* the answer of git-log, when the file count of the last commit of the log
\* output has ended, lists every commit of the output
ListsEveryCommit(e, commits) ==
    /\ Len(commits) = Len(e.done) + 1
    /\ \A i \in 1..Len(e.done) :
          /\ commits[i].hash = e.done[i].hash
          /\ commits[i].filesChanged = IF e.done[i].treeOk THEN e.done[i].files ELSE 0
    /\ commits[Len(commits)].hash = Head(e.todo)
    /\ e.elapsed = TreeTimeout => commits[Len(commits)].filesChanged = 0

\* the step in which the execSync of a git diff-tree returns or throws
TreeEnded == exec' # exec /\ exec' # [exec EXCEPT !.elapsed = @ + 1]

\* C14: when the file count (git diff-tree) of a commit fails or runs into
\* its timeout, the listing goes on: the handler counts the files of the
\* next commit, and its answer holds every commit of the log output, in the
\* order of the output, the failed ones with filesChanged = 0.
C14_FileCountFailureKeepsListing ==
    [][(exec.kind = "tree" /\ TreeEnded) =>
          /\ Len(exec.todo) > 1 =>
                /\ exec'.kind = "tree"
                /\ exec'.todo = Tail(exec.todo)
                /\ Len(exec'.done) = Len(exec.done) + 1
                /\ last' = last
          /\ Len(exec.todo) = 1 =>
                /\ exec'.kind = "none"
                /\ last'.op = "git-log" /\ last'.status = 200
                /\ "warning" \notin DOMAIN last'.body
                /\ ListsEveryCommit(exec, last'.body.commits)]_vars

C14_Witness ==
    /\ last.op = "git-log" /\ last.status = 200
    /\ "warning" \notin DOMAIN last.body
    /\ Len(last.body.commits) = 2
    /\ last.body.commits[1].filesChanged = 0
    /\ last.body.commits[2].filesChanged = 2

----------------------------------------------------------------------------
(* The browser client (controllers/project-board.ts): loadProjectBoard and *)
(* loadCommitDiff.  A call sets its loading flag, sends its requests and   *)
(* goes on when the responses are there; the server answers in between.    *)

\* most calls of the client that await their responses at one time
MaxCalls == 2

\* res.ok
ResOk(res) == res.status >= 200 /\ res.status <= 299

\* res.json() returns (the body is JSON)
IsJson(body) == "raw" \notin DOMAIN body

NoResponses ==
    [proj |-> NoOutcome, board |-> NoOutcome, commits |-> NoOutcome,
     diff |-> NoOutcome]

\* a call that has sent its requests; gitFailed tells whether the git
\* command of the server threw, stale whether a moveTask was called while
\* the call was waiting (history)
Call(fn, projectId, hash) ==
    [fn |-> fn, projectId |-> projectId, hash |-> hash, phase |-> "sent",
     res |-> NoResponses, gitFailed |-> FALSE, stale |-> FALSE]

\* loadCommitDiff up to its await
LoadCommitDiffStart(projectId, hash) ==
    /\ Cardinality(calls) < MaxCalls
    /\ Call("loadCommitDiff", projectId, hash) \notin calls
    /\ projectBoard' = [projectBoard EXCEPT !.commitDetailHash = Text(hash),
                                            !.commitDiff = Null,
                                            !.commitDiffLoading = TRUE]
    /\ calls' = calls \cup {Call("loadCommitDiff", projectId, hash)}
    /\ UNCHANGED <<clock, board, projectsFile, standupFile, reqs, last, trail,
                   moves, gitVars, view, homeVars>>

\* loadProjectBoard up to its await
LoadProjectBoardStart(projectId) ==
    /\ Cardinality(calls) < MaxCalls
    /\ Call("loadProjectBoard", projectId, <<>>) \notin calls
    /\ projectBoard' = [projectBoard EXCEPT !.loading = TRUE, !.error = Null]
    /\ calls' = calls \cup {Call("loadProjectBoard", projectId, <<>>)}
    /\ hist' = [hist EXCEPT !.asked = Text(projectId)]
    /\ UNCHANGED <<clock, board, projectsFile, standupFile, reqs, last, trail,
                   moves, gitVars, view, homeData, host, parsed>>

\* fetch rejects: the server cannot be reached
FetchFails(c) ==
    /\ c \in calls
    /\ c.phase = "sent"
    /\ calls' = (calls \ {c}) \cup {[c EXCEPT !.phase = "rejected"]}
    /\ UNCHANGED <<clock, board, projectsFile, standupFile, reqs, last, trail,
                   moves, gitVars, projectBoard, view, homeVars>>

\* the server answers GET /api/git-diff/<projectId>/<hash>
ServeDiff(c, run) ==
    /\ c \in calls
    /\ c.phase = "sent"
    /\ c.fn = "loadCommitDiff"
    /\ LET res == GitDiffResult(<<"/">> \o c.projectId \o <<"/">> \o c.hash, run)
       IN  /\ last' = res
           /\ calls' = (calls \ {c}) \cup
                       {[c EXCEPT !.phase = "answered", !.res.diff = res,
                                  !.gitFailed = ~run.ok]}
    /\ UNCHANGED <<clock, board, projectsFile, standupFile, reqs, trail, moves,
                   gitVars, projectBoard, view, homeVars>>

\* the server answers the three requests of a loadProjectBoard, the git log
\* last
ServeLoad(c, run) ==
    /\ c \in calls
    /\ c.phase = "sent"
    /\ c.fn = "loadProjectBoard"
    /\ LET url == <<"/">> \o c.projectId
           res == [proj |-> ProjectsResult(projectsFile),
                   board |-> GetBoardResult(url),
                   commits |-> GitLogResult(url, run),
                   diff |-> NoOutcome]
       IN  /\ last' = res.commits
           /\ calls' = (calls \ {c}) \cup
                       {[c EXCEPT !.phase = "answered", !.res = res,
                                  !.gitFailed = ~run.ok]}
    /\ UNCHANGED <<clock, board, projectsFile, standupFile, reqs, trail, moves,
                   gitVars, projectBoard, view, homeVars>>

\* data.diff || "No diff available"
DiffText(text) == IF text = "" THEN Text("No diff available") ELSE Text(text)

\* what loadCommitDiff leaves in commitDiff
CommitDiffOf(c) ==
    IF c.phase = "rejected" THEN Text("Failed to load diff")
    ELSE IF ResOk(c.res.diff) THEN DiffText(c.res.diff.body.diff)
    ELSE Text("Failed to load diff")

\* loadCommitDiff after its await
LoadCommitDiffEnd(c) ==
    /\ c \in calls
    /\ c.fn = "loadCommitDiff"
    /\ c.phase \in {"answered", "rejected"}
    /\ projectBoard' = [projectBoard EXCEPT !.commitDiff = CommitDiffOf(c),
                                            !.commitDiffLoading = FALSE]
    /\ calls' = calls \ {c}
    /\ UNCHANGED <<clock, board, projectsFile, standupFile, reqs, last, trail,
                   moves, gitVars, view, homeVars>>

\* (projData.projects || []).find((p) => p.id === projectId) || null
FindProject(projData, projectId) ==
    IF "projects" \in DOMAIN projData
       /\ \E i \in 1..Len(projData.projects) : projData.projects[i].id = projectId
    THEN projData.projects[CHOOSE i \in 1..Len(projData.projects) :
                              /\ projData.projects[i].id = projectId
                              /\ \A j \in 1..(i - 1) : projData.projects[j].id # projectId]
    ELSE Null

\* commitsRes.ok ? (commitsData.commits || []) : []
CommitsOf(res) ==
    IF ResOk(res) /\ "commits" \in DOMAIN res.body THEN res.body.commits ELSE <<>>

\* the try block of loadProjectBoard throws: a fetch rejects or a body is
\* no JSON
LoadThrows(c) ==
    \/ c.phase = "rejected"
    \/ ~IsJson(c.res.proj.body)
    \/ ~IsJson(c.res.board.body)

\* loadProjectBoard after its await
LoadProjectBoardEnd(c) ==
    /\ c \in calls
    /\ c.fn = "loadProjectBoard"
    /\ c.phase \in {"answered", "rejected"}
    /\ projectBoard' =
          IF LoadThrows(c)
          THEN [projectBoard EXCEPT !.loading = FALSE, !.error = Text("Error")]
          ELSE [projectBoard EXCEPT
                   !.project = FindProject(c.res.proj.body, c.projectId),
                   !.board = c.res.board.body,
                   !.commits = CommitsOf(c.res.commits),
                   !.loading = FALSE,
                   !.error = Null]
    /\ calls' = calls \ {c}
    /\ hist' = IF LoadThrows(c) THEN hist
               ELSE [hist EXCEPT !.applied = Text(c.projectId), !.boardFrom = "load"]
    /\ UNCHANGED <<clock, board, projectsFile, standupFile, reqs, last, trail,
                   moves, gitVars, view, homeData, host, parsed>>

\* the hashes the client asks for: a commit hash and one that the server
\* rejects
UiHashes == {<<"F">>, <<"g">>}

NextUi ==
    \/ \E h \in UiHashes : LoadCommitDiffStart(BoardId, h)
    \/ LoadProjectBoardStart(BoardId)
    \/ \E c \in calls : FetchFails(c)
    \/ \E c \in calls, run \in GitShowRuns : ServeDiff(c, run)
    \/ \E c \in calls, run \in ApiLogRuns : ServeLoad(c, run)
    \/ \E c \in calls : LoadCommitDiffEnd(c)
    \/ \E c \in calls : LoadProjectBoardEnd(c)

SpecUi == InitApi /\ [][NextUi]_vars

----------------------------------------------------------------------------
(* Properties of the client's loaders (SpecUi).                            *)

\* C13: for a project id and a hash that pass the check, a git show that
\* fails, runs into its timeout or finds no such commit makes the server
\* answer the payload {diff: "Diff not available"}, and loadCommitDiff
\* always ends with a diff text that is not null and can be rendered.
C13_DiffSentinel ==
    /\ [](\A c \in calls :
             (c.fn = "loadCommitDiff" /\ c.phase = "answered"
              /\ c.res.diff.status # 400 /\ c.gitFailed)
                 => c.res.diff.body = [diff |-> "Diff not available"])
    /\ [][\A c \in calls \ calls' :
             (c.fn = "loadCommitDiff" /\ c.phase \in {"answered", "rejected"})
                 => /\ projectBoard'.commitDiff # Null
                    /\ projectBoard'.commitDiff.text # ""
                    /\ ~projectBoard'.commitDiffLoading]_vars

C13_Witness ==
    /\ calls = {}
    /\ last.op = "git-diff" /\ last.status = 404
    /\ last.body = [diff |-> "Diff not available"]
    /\ projectBoard.commitDetailHash = Text(<<"F">>)
    /\ projectBoard.commitDiff = Text("Failed to load diff")

\* C15: when git log is missing, fails or runs into its timeout, the server
\* answers {commits: [], warning: ...} with no error status, and the
\* loadProjectBoard that asked ends with an empty commit list and with the
\* project and the board of the same call applied.
C15_LogFailureDegrades ==
    /\ [](\A c \in calls :
             (c.fn = "loadProjectBoard" /\ c.phase = "answered"
              /\ c.res.commits.status # 400 /\ c.gitFailed)
                 => /\ c.res.commits.status = 200
                    /\ DOMAIN c.res.commits.body = {"commits", "warning"}
                    /\ c.res.commits.body.commits = <<>>)
    /\ [][\A c \in calls \ calls' :
             (c.fn = "loadProjectBoard" /\ c.phase = "answered" /\ c.gitFailed
              /\ IsJson(c.res.proj.body) /\ IsJson(c.res.board.body))
                 => /\ projectBoard'.commits = <<>>
                    /\ projectBoard'.board = c.res.board.body
                    /\ projectBoard'.project = FindProject(c.res.proj.body, c.projectId)
                    /\ projectBoard'.error = Null
                    /\ ~projectBoard'.loading]_vars

C15_Witness ==
    /\ calls = {}
    /\ last.op = "git-log" /\ last.status = 200 /\ "warning" \in DOMAIN last.body
    /\ projectBoard.board = InitDoc
    /\ projectBoard.project # Null
    /\ projectBoard.commits = <<>>
    /\ projectBoard.error = Null

----------------------------------------------------------------------------
(* groupTasksByColumn (controllers/project-board.ts).  The time of the     *)
(* view is counted in days; a created stamp is an ISO text, and texts of   *)
(* one format order as their instants do, so one number stands for both.   *)
(* A task carries its place in the argument as ix, its identity.           *)

\* most tasks of varied shape in the argument
MaxVaried == 2

COLUMNS == <<"backlog", "planned", "in-progress", "review", "done">>

\* a task without state (undefined): it equals none of the state names
NoState == ""

\* p?.toLowerCase(), on the priority names
ToLowerCase(p) ==
    IF p = "P0" THEN "p0" ELSE IF p = "P1" THEN "p1"
    ELSE IF p = "P2" THEN "p2" ELSE IF p = "P3" THEN "p3" ELSE p

priorityOrder(p) ==
    LET l == ToLowerCase(p)
    IN  IF l = "p0" THEN 0 ELSE IF l = "p1" THEN 1
        ELSE IF l = "p2" THEN 2 ELSE IF l = "p3" THEN 3 ELSE 9

\* 7 * 24 * 60 * 60 * 1000 ms
SevenDays == 7

\* the backlog column shows this many tasks
BacklogLimit == 10

\* task.completed || task.updated || task.created || ""
CompletedDate(task) ==
    IF task.completed # Absent THEN task.completed
    ELSE IF task.updated # Absent THEN task.updated
    ELSE task.created

\* variant: a task completed exactly seven days ago is left out too
OutsideDoneWindowInclusive(task, now) ==
    CompletedDate(task) # Absent /\ CompletedDate(task) <= now - SevenDays

\* completedDate && new Date(completedDate).getTime() < sevenDaysAgo
OutsideDoneWindow(task, now) ==
    CompletedDate(task) # Absent /\ CompletedDate(task) < now - SevenDays

\* the task is pushed to its column (no continue)
Pushed(task, showAllDone, now) ==
    ~(Classify(task.state) = "done" /\ ~showAllDone /\ OutsideDoneWindow(task, now))

\* groups[col] after the loop over the tasks
RECURSIVE ColumnTasks(_, _, _, _)
ColumnTasks(tasks, col, showAllDone, now) ==
    IF tasks = <<>> THEN <<>>
    ELSE IF Classify(Head(tasks).state) = col /\ Pushed(Head(tasks), showAllDone, now)
    THEN <<Head(tasks)>> \o ColumnTasks(Tail(tasks), col, showAllDone, now)
    ELSE ColumnTasks(Tail(tasks), col, showAllDone, now)

\* (a.created || "").localeCompare(b.created || ""): the empty text comes
\* first, as Absent does
LocaleCompare(x, y) == IF x < y THEN -1 ELSE IF x > y THEN 1 ELSE 0

\* variant: the comparator looks at the priority only
CompareByPriority(a, b) == priorityOrder(a.priority) - priorityOrder(b.priority)

\* the comparator of the sort
Compare(a, b) ==
    LET pd == priorityOrder(a.priority) - priorityOrder(b.priority)
    IN  IF pd # 0 THEN pd ELSE LocaleCompare(a.created, b.created)

\* variant: a task that compares equal to one of the column is not added
RECURSIVE InsertDedup(_, _)
InsertDedup(s, t) ==
    IF s = <<>> THEN <<t>>
    ELSE IF Compare(t, Head(s)) = 0 THEN s
    ELSE IF Compare(t, Head(s)) < 0 THEN <<t>> \o s
    ELSE <<Head(s)>> \o InsertDedup(Tail(s), t)

\* Array.prototype.sort is stable: t goes behind the tasks that do not
\* compare greater
RECURSIVE Insert(_, _)
Insert(s, t) ==
    IF s = <<>> THEN <<t>>
    ELSE IF Compare(t, Head(s)) < 0 THEN <<t>> \o s
    ELSE <<Head(s)>> \o Insert(Tail(s), t)

\* groups[col].sort(...)
RECURSIVE Sort(_)
Sort(s) ==
    IF s = <<>> THEN <<>>
    ELSE Insert(Sort(SubSeq(s, 1, Len(s) - 1)), s[Len(s)])

\* variant: the column is cut before it is sorted
SortedCutFirst(s, col, showAllBacklog) ==
    IF col = "backlog" /\ ~showAllBacklog /\ Len(s) > BacklogLimit
    THEN Sort(SubSeq(s, 1, BacklogLimit))
    ELSE Sort(s)

\* the column after the sort and groups.backlog.slice(0, 10)
SortedCut(s, col, showAllBacklog) ==
    IF col = "backlog" /\ ~showAllBacklog /\ Len(Sort(s)) > BacklogLimit
    THEN SubSeq(Sort(s), 1, BacklogLimit)
    ELSE Sort(s)

groupTasksByColumn(tasks, showAllDone, showAllBacklog, now) ==
    [col \in {COLUMNS[i] : i \in 1..Len(COLUMNS)} |->
        SortedCut(ColumnTasks(tasks, col, showAllDone, now), col, showAllBacklog)]

\* Date.now() of the call, a day
ViewNow == 10

Shape(state, priority, created, updated, completed) ==
    [state |-> state, priority |-> priority, created |-> created,
     updated |-> updated, completed |-> completed]

\* The tasks a board holds: every state name, a state that is no column
\* name and no state; priorities in both cases, unknown and absent; done
\* tasks dated before, at and after the edge of the window by each of
\* their three dates.
Shapes ==
    {Shape("todo", "p2", 5, Absent, Absent),
     Shape("todo", "p0", 6, Absent, Absent),
     Shape("todo", "p2", 2, 2, Absent),
     Shape(NoState, "P1", 4, Absent, Absent),
     Shape("backlog", "", Absent, Absent, Absent),
     Shape("planned", "p3", 5, Absent, Absent),
     Shape("planned", "p2", 4, 2, Absent),
     Shape("in-progress", "p1", 5, 9, Absent),
     Shape("active", "high", 2, 2, Absent),
     Shape("review", "p2", 5, 9, Absent),
     Shape("in-review", "", 2, 2, 2),
     Shape("done", "p2", 1, 2, 2),
     Shape("done", "p1", 1, 3, Absent),
     Shape("completed", "p2", 2, Absent, Absent),
     Shape("done", "", Absent, Absent, Absent),
     Shape("done", "p0", 1, 2, 10),
     Shape("completed", "P0", 10, 2, Absent)}

\* tasks alike, as many as the backlog shows, of a column that is cut and
\* of one that is not
FillerStates == {"todo", "planned"}
Filler(state) == Shape(state, "p2", 5, Absent, Absent)

\* the argument: a varied task, the fillers, the other varied tasks
TaskList(varied, fillState, k) ==
    LET first == IF varied = <<>> THEN <<>> ELSE <<Head(varied)>>
        rest == IF varied = <<>> THEN <<>> ELSE Tail(varied)
        shapes == first \o [i \in 1..k |-> Filler(fillState)] \o rest
    IN  [i \in 1..Len(shapes) |->
            [ix |-> i, state |-> shapes[i].state, priority |-> shapes[i].priority,
             created |-> shapes[i].created, updated |-> shapes[i].updated,
             completed |-> shapes[i].completed]]

NoGroups == [col \in {COLUMNS[i] : i \in 1..Len(COLUMNS)} |-> <<>>]

InitGroup ==
    /\ \E varied \in SeqsUpTo(Shapes, MaxVaried), fillState \in FillerStates,
          k \in {0, BacklogLimit}, showAllDone \in BOOLEAN, showAllBacklog \in BOOLEAN :
          view = [called |-> FALSE, tasks |-> TaskList(varied, fillState, k),
                  showAllDone |-> showAllDone, showAllBacklog |-> showAllBacklog,
                  now |-> ViewNow, groups |-> NoGroups]
    /\ clock = 1
    /\ board = InitDoc
    /\ projectsFile = ProjectsDoc
    /\ standupFile = StandupText
    /\ reqs = [s \in Slots |-> Idle]
    /\ last = NoOutcome
    /\ trail = <<>>
    /\ moves = 0
    /\ exec = NoExec
    /\ queue = {}
    /\ projectBoard = defaultProjectBoard
    /\ calls = {}
    /\ InitHome

\* the view renders the board
GroupTasks ==
    /\ ~view.called
    /\ view' = [view EXCEPT !.called = TRUE,
                            !.groups = groupTasksByColumn(view.tasks, view.showAllDone,
                                                          view.showAllBacklog, view.now)]
    /\ UNCHANGED <<clock, board, projectsFile, standupFile, reqs, last, trail,
                   moves, gitVars, projectBoard, calls, homeVars>>

NextGroup == GroupTasks

SpecGroup == InitGroup /\ [][NextGroup]_vars

----------------------------------------------------------------------------
(* Properties of groupTasksByColumn (SpecGroup).                           *)

ColumnKeys == {"backlog", "planned", "in-progress", "review", "done"}

\* the tasks of the argument, by their place
Places == 1..Len(view.tasks)

\* the places of the tasks that a column of the result holds
InColumn(col) == {view.groups[col][i].ix : i \in 1..Len(view.groups[col])}

\* the column that the state of a task names
ColumnOfState(state) ==
    CASE state \in {"done", "completed"} -> "done"
      [] state \in {"in-progress", "active"} -> "in-progress"
      [] state \in {"review", "in-review"} -> "review"
      [] state = "planned" -> "planned"
      [] OTHER -> "backlog"

PlacesOf(col) == {i \in Places : ColumnOfState(view.tasks[i].state) = col}

\* the date a done task is judged by: completed, else updated, else created
EffectiveDate(t) ==
    IF t.completed # Absent THEN t.completed
    ELSE IF t.updated # Absent THEN t.updated ELSE t.created

\* the done-window filter leaves the task out
TooOld(t) ==
    /\ ~view.showAllDone
    /\ EffectiveDate(t) # Absent
    /\ EffectiveDate(t) < view.now - 7

PriorityRank(p) ==
    CASE ToLowerCase(p) = "p0" -> 0
      [] ToLowerCase(p) = "p1" -> 1
      [] ToLowerCase(p) = "p2" -> 2
      [] ToLowerCase(p) = "p3" -> 3
      [] OTHER -> 4

\* a ranks before b: by priority, then by creation time
RanksBefore(a, b) ==
    \/ PriorityRank(a.priority) < PriorityRank(b.priority)
    \/ /\ PriorityRank(a.priority) = PriorityRank(b.priority)
       /\ a.created < b.created

\* the places the backlog truncation leaves out
CutPlaces == PlacesOf("backlog") \ InColumn("backlog")

\* C16: the column of a task is a total function of its state alone:
\* done and completed give done, in-progress and active give in-progress,
\* review and in-review give review, planned gives planned, and every other
\* value, no state included, gives backlog.
C16_ClassifyTotal ==
    view.called =>
        /\ \A col \in ColumnKeys : \A i \in 1..Len(view.groups[col]) :
              ColumnOfState(view.groups[col][i].state) = col
        /\ \A i \in Places :
              ColumnOfState(view.tasks[i].state) \in {"planned", "in-progress", "review"}
                  => i \in InColumn(ColumnOfState(view.tasks[i].state))

C16_Witness ==
    /\ view.called
    /\ \E i \in 1..Len(view.groups["backlog"]) : view.groups["backlog"][i].state = NoState
    /\ \E i \in 1..Len(view.groups["done"]) : view.groups["done"][i].state = "completed"

\* C17: every task of the argument that the done window and the backlog
\* truncation let through is in exactly one column, the column of its
\* state, once; the result holds no task that is not in the argument; the
\* sizes of the columns add up to the number of tasks let through.
C17_GroupingTotal ==
    view.called =>
        /\ \A col \in ColumnKeys : \A i \in 1..Len(view.groups[col]) :
              LET t == view.groups[col][i]
              IN  /\ t.ix \in Places
                  /\ view.tasks[t.ix] = t
                  /\ Classify(t.state) = col
                  /\ \A j \in 1..Len(view.groups[col]) :
                        j # i => view.groups[col][j].ix # t.ix
        /\ \A i \in Places :
              \/ \E col \in ColumnKeys : i \in InColumn(col)
              \/ ColumnOfState(view.tasks[i].state) = "done" /\ TooOld(view.tasks[i])
              \/ /\ ColumnOfState(view.tasks[i].state) = "backlog"
                 /\ ~view.showAllBacklog
                 /\ Cardinality(PlacesOf("backlog")) > 10
        /\ Len(view.groups["backlog"]) + Len(view.groups["planned"])
              + Len(view.groups["in-progress"]) + Len(view.groups["review"])
              + Len(view.groups["done"])
           = Len(view.tasks)
              - Cardinality({i \in PlacesOf("done") : TooOld(view.tasks[i])})
              - (IF ~view.showAllBacklog /\ Cardinality(PlacesOf("backlog")) > 10
                 THEN Cardinality(PlacesOf("backlog")) - 10 ELSE 0)

C17_Witness ==
    /\ view.called
    /\ Len(view.tasks) = 12
    /\ Len(view.groups["backlog"]) = 10
    /\ Len(view.groups["planned"]) = 1
    /\ Len(view.groups["done"]) = 0
    /\ PlacesOf("done") # {}

\* C18: with showAllDone false a done task is left out of the done column
\* exactly when its effective date (completed, else updated, else created)
\* lies more than 7 days before now; with showAllDone true every done task
\* is shown; the filter removes no task of the other four columns.
C18_DoneWindow ==
    view.called =>
        \A i \in Places :
            LET t == view.tasks[i]
                col == ColumnOfState(t.state)
            IN  /\ col = "done" =>
                      (i \in InColumn("done")
                          <=> (view.showAllDone
                               \/ EffectiveDate(t) = Absent
                               \/ EffectiveDate(t) >= view.now - 7))
                /\ col \in {"planned", "in-progress", "review"} => i \in InColumn(col)
                /\ (col = "backlog"
                    /\ (view.showAllBacklog \/ Cardinality(PlacesOf("backlog")) <= 10))
                      => i \in InColumn("backlog")

C18_Witness ==
    /\ view.called
    /\ ~view.showAllDone
    /\ \E i \in InColumn("done") : EffectiveDate(view.tasks[i]) = view.now - 7
    /\ \E i \in PlacesOf("done") \ InColumn("done") :
          EffectiveDate(view.tasks[i]) = view.now - 8

\* C19: with showAllBacklog false the backlog column is the first 10 tasks
\* of the sorted backlog (all of them when they are 10 or fewer), so no
\* task left out ranks before one that is kept; with showAllBacklog true
\* none is left out; no other column is cut.
C19_BacklogTruncation ==
    view.called =>
        /\ view.showAllBacklog => CutPlaces = {}
        /\ ~view.showAllBacklog =>
              /\ Len(view.groups["backlog"]) =
                    (IF Cardinality(PlacesOf("backlog")) > 10 THEN 10
                     ELSE Cardinality(PlacesOf("backlog")))
              /\ \A d \in CutPlaces, k \in InColumn("backlog") :
                    /\ ~RanksBefore(view.tasks[d], view.tasks[k])
                    /\ ~RanksBefore(view.tasks[k], view.tasks[d]) => k < d
        /\ \A col \in {"planned", "in-progress", "review"} :
              Len(view.groups[col]) = Cardinality(PlacesOf(col))
        /\ Len(view.groups["done"]) =
              Cardinality({i \in PlacesOf("done") : ~TooOld(view.tasks[i])})

C19_Witness ==
    /\ view.called
    /\ ~view.showAllBacklog
    /\ Cardinality(CutPlaces) = 2
    /\ \E k \in InColumn("backlog") : \A d \in CutPlaces : d < k

\* C20: every column of the result is sorted by priority rank, p0 before
\* p1 before p2 before p3 before a priority that is none of these; tasks of
\* one rank stand by ascending creation time; tasks equal in both stand in
\* the order of the argument.
C20_ColumnsSorted ==
    view.called =>
        \A col \in ColumnKeys : \A i, j \in 1..Len(view.groups[col]) :
            i < j =>
                LET a == view.groups[col][i]
                    b == view.groups[col][j]
                IN  /\ ~RanksBefore(b, a)
                    /\ ~RanksBefore(a, b) => a.ix < b.ix

C20_Witness ==
    /\ view.called
    /\ \E col \in ColumnKeys : \E i, j \in 1..Len(view.groups[col]) :
          /\ i < j
          /\ view.groups[col][i].ix > view.groups[col][j].ix
          /\ view.groups[col][i].priority = view.groups[col][j].priority
    /\ \E col \in ColumnKeys : \E i, j \in 1..Len(view.groups[col]) :
          /\ i < j
          /\ view.groups[col][i].ix > view.groups[col][j].ix
          /\ PriorityRank(view.groups[col][i].priority)
                < PriorityRank(view.groups[col][j].priority)

----------------------------------------------------------------------------
(* What a move leaves alone (Spec).                                        *)

\* the fields of a task that a move may change
MovedFields == {"state", "updated", "completed"}

\* C26: a successful move changes nothing but the state, updated and
\* completed fields of its task and the lastUpdated of the board: the
\* number, order and ids of the tasks, every other task and the other
\* fields of the task (comments and reviewNotes among them) are as before;
\* and no move, in any sequence of moves, overwrites or clears a completion
\* stamp that a task has.
C26_MoveFrame ==
    /\ [](MoveSucceeded =>
             LET pre == last.move.pre
                 post == last.body
                 i == FindTask(pre, last.move.taskId)
             IN  /\ board = post
                 /\ DOMAIN post = DOMAIN pre
                 /\ \A f \in DOMAIN pre \ {"tasks", "lastUpdated"} : post[f] = pre[f]
                 /\ Len(post.tasks) = Len(pre.tasks)
                 /\ \A j \in 1..Len(pre.tasks) : j # i => post.tasks[j] = pre.tasks[j]
                 /\ DOMAIN post.tasks[i] = DOMAIN pre.tasks[i]
                 /\ \A f \in DOMAIN pre.tasks[i] \ MovedFields :
                       post.tasks[i][f] = pre.tasks[i][f])
    /\ [][(IsBoardDoc(board) /\ IsBoardDoc(board')) =>
             \A j \in 1..Len(board.tasks) :
                 board.tasks[j].completed # Absent
                     => board'.tasks[j].completed = board.tasks[j].completed]_vars

C26_Witness ==
    /\ MoveSucceeded
    /\ Len(trail) = 2
    /\ trail[1].taskId = "t2" /\ trail[1].to = "in-progress"
    /\ trail[2].taskId = "t2" /\ trail[2].to = "done"
    /\ board.tasks[2].completed = 0
    /\ board.tasks[2].updated > 0
    /\ board.tasks[2].comments = <<"c1">>

----------------------------------------------------------------------------
(* A move and the board view after it.  Here a tick of the clock is a day  *)
(* and the clock starts at 1: the board holds a task that was completed    *)
(* eight days before day 0.                                                *)

OldDoc ==
    [projectId |-> BoardId, lastUpdated |-> 0 - SevenDays - 1,
     tasks |-> <<Task("t1", "todo", Absent, Absent),
                 Task("t2", "done", 0 - SevenDays - 1, 0 - SevenDays - 1)>>]

InitDone ==
    /\ clock = 1
    /\ board = OldDoc
    /\ projectsFile = ProjectsDoc
    /\ standupFile = StandupText
    /\ reqs = [s \in Slots |-> Idle]
    /\ last = NoOutcome
    /\ trail = <<>>
    /\ moves = 0
    /\ InitRest

\* the tasks of a board document as the view gets them: the board keeps no
\* priority and no created stamp
ViewTasks(tasks) ==
    [i \in 1..Len(tasks) |->
        [ix |-> i, id |-> tasks[i].id, state |-> tasks[i].state, priority |-> "",
         created |-> Absent, updated |-> tasks[i].updated,
         completed |-> tasks[i].completed]]

\* moveTask gets the board of an ok response, stores it, and the view
\* renders it with the default flags
RenderMoved ==
    /\ MoveSucceeded
    /\ projectBoard' = [projectBoard EXCEPT !.board = last.body]
    /\ view' = [called |-> TRUE, tasks |-> ViewTasks(last.body.tasks),
                showAllDone |-> FALSE, showAllBacklog |-> FALSE, now |-> clock,
                groups |-> groupTasksByColumn(ViewTasks(last.body.tasks),
                                              FALSE, FALSE, clock),
                moved |-> last.move.taskId, to |-> last.move.newState]
    /\ UNCHANGED <<clock, board, projectsFile, standupFile, reqs, last, trail,
                   moves, gitVars, calls, homeVars>>

DonePayloads ==
    {<< <<"t1", "done">> >>, << <<"t2", "done">> >>, << <<"t2", "in-progress">> >>}

NextDone ==
    \/ \E payload \in DonePayloads : PostMoveStart(1, MoveUrl, payload)
    \/ PostMoveData(1)
    \/ \E d1 \in 0..1 : PostMoveEnd(1, "ok", d1, 0)
    \/ Tick
    \/ RenderMoved

SpecDone == InitDone /\ [][NextDone]_vars

\* C27: a task that a successful move has just moved to done is in the
\* done column of groupTasksByColumn with showAllDone false, whatever moves
\* the task went through before.
C27_MovedToDoneIsShown ==
    (view.called /\ view.to = "done") =>
        \E i \in 1..Len(view.groups["done"]) : view.groups["done"][i].id = view.moved

----------------------------------------------------------------------------
(* The home view: loadHomeData.                                            *)

\* the longest task list of the first project's board
MaxHomeTasks == 2

\* a task of a board as loadHomeData reads it; "" is an absent text
HomeTask(id, state, reviewType, priority, updated) ==
    [id |-> id, title |-> "t", state |-> state, reviewType |-> reviewType,
     assignee |-> "", priority |-> priority, updated |-> updated, created |-> 0]

\* state, reviewType, priority and updated of the tasks the boards hold
HomeShapes ==
    {<<"review", "", "p1", 2>>, <<"in-review", "", "", 3>>,
     <<"in-progress", "sam-required", "p3", 1>>,
     <<"completed", "sam-required", "p0", 1>>,
     <<"done", "sam-required", "p0", 2>>, <<"active", "", "p2", 1>>,
     <<"todo", "", "", Absent>>, <<"review", "", "urgent", 2>>}

\* a board document of project pid; the ids of its tasks are their places
HomeBoard(pid, shapes) ==
    [projectId |-> pid, lastUpdated |-> 3,
     tasks |-> [i \in 1..Len(shapes) |->
                   HomeTask(<<pid, i>>, shapes[i][1], shapes[i][2], shapes[i][3],
                            shapes[i][4])]]

ProjectA == [id |-> "a", name |-> "A", status |-> "active"]

ProjectB == [id |-> "b", name |-> "B", status |-> "active"]

\* a fetch that rejects, and a response
Rejected == [rejected |-> TRUE]

Answer(status, body) == [status |-> status, body |-> body]

\* await fetch(...) and await res.json() both return
Parses(res) == "rejected" \notin DOMAIN res /\ IsJson(res.body)

OneProject == Answer(200, [projects |-> <<ProjectA>>, archived |-> <<>>])

TwoProjects == Answer(200, [projects |-> <<ProjectA, ProjectB>>, archived |-> <<>>])

\* the answers to GET /api/projects
HomeProjectAnswers ==
    {Rejected, Answer(200, Garbage), Answer(500, ErrorBody("ENOENT")),
     OneProject, TwoProjects}

\* the board of the second project
HomeBoardB ==
    HomeBoard("b", <<<<"review", "", "p3", 1>>, <<"in-review", "sam-required", "P1", 2>>>>)

\* the answers to GET /api/board/<id>
HomeBoardAnswers(pid) ==
    IF pid = "a"
    THEN {Rejected} \cup
         {Answer(200, HomeBoard("a", shapes)) :
             shapes \in UNION {[1..n -> HomeShapes] : n \in 0..MaxHomeTasks}}
    ELSE {Rejected, Answer(200, Garbage), Answer(404, BoardDefault),
          Answer(500, ErrorBody("EACCES")),
          Answer(200, HomeBoardB)}

StandupAnswer == Answer(200, [content |-> "standup"])

\* the answers to GET /api/standup
HomeStandupAnswers == {Rejected, StandupAnswer}

\* projData.projects || []
ProjectsOf(projData) ==
    IF "projects" \in DOMAIN projData THEN projData.projects ELSE <<>>

\* the answers a call of loadHomeData can get: a board answer for each
\* project of the projects answer
HomeAnswers ==
    {[proj |-> pr, boards |-> <<>>, standup |-> Rejected] :
        pr \in {r \in HomeProjectAnswers : ~Parses(r) \/ ProjectsOf(r.body) = <<>>}}
    \cup {[proj |-> OneProject, boards |-> <<a>>, standup |-> StandupAnswer] :
             a \in HomeBoardAnswers("a")}
    \cup {[proj |-> TwoProjects, boards |-> <<a, b>>, standup |-> StandupAnswer] :
             a \in HomeBoardAnswers("a"), b \in {Rejected, Answer(200, HomeBoardB)}}
    \cup {[proj |-> TwoProjects, boards |-> <<Rejected, b>>, standup |-> st] :
             b \in HomeBoardAnswers("b"), st \in HomeStandupAnswers}

\* boardResult.status === "fulfilled" ? boardResult.value : null
BoardOf(result) == IF Parses(result) THEN result.body ELSE Null

\* board?.tasks || []
TasksOf(b) == IF "tasks" \in DOMAIN b THEN b.tasks ELSE <<>>

\* t.state === "in-progress" || t.state === "active"
InProgress(t) == t.state = "in-progress" \/ t.state = "active"

\* (state === "review" || state === "in-review") ||
\* (reviewType === "sam-required" && state !== "done")
NeedsReview(t) ==
    \/ t.state = "review" \/ t.state = "in-review"
    \/ (t.reviewType = "sam-required" /\ t.state # "done")

\* the item pushed to the review queue
ReviewItemOf(project, task) ==
    [taskId |-> task.id, title |-> task.title, projectName |-> project.name,
     projectId |-> project.id,
     assignee |-> IF task.assignee = "" THEN "unassigned" ELSE task.assignee,
     priority |-> IF task.priority = "" THEN "p3" ELSE task.priority,
     updated |-> IF task.updated # Absent THEN task.updated ELSE task.created]

RECURSIVE ReviewItemsOf(_, _)
ReviewItemsOf(project, tasks) ==
    IF tasks = <<>> THEN <<>>
    ELSE IF NeedsReview(Head(tasks))
    THEN <<ReviewItemOf(project, Head(tasks))>> \o ReviewItemsOf(project, Tail(tasks))
    ELSE ReviewItemsOf(project, Tail(tasks))

\* lastUpdate: board?.lastUpdated || null; Absent stands for null
ProjectCardOf(project, b) ==
    [project |-> project, board |-> b,
     tasksInProgress |-> Len(SelectSeq(TasksOf(b), InProgress)),
     tasksNeedingReview |-> Len(SelectSeq(TasksOf(b), NeedsReview)),
     lastUpdate |-> IF "lastUpdated" \in DOMAIN b THEN b.lastUpdated ELSE Absent]

\* projectCards after the loop over the projects
ProjectCards(projects, results) ==
    [i \in 1..Len(projects) |-> ProjectCardOf(projects[i], BoardOf(results[i]))]

\* reviewQueue after the loop over the projects, before the sort
RECURSIVE Collected(_, _, _)
Collected(projects, results, i) ==
    IF i > Len(projects) THEN <<>>
    ELSE ReviewItemsOf(projects[i], TasksOf(BoardOf(results[i])))
         \o Collected(projects, results, i + 1)

\* the comparator of the queue: priority, then (b.updated).localeCompare(a.updated)
ReviewCompare(a, b) ==
    LET pd == priorityOrder(a.priority) - priorityOrder(b.priority)
    IN  IF pd # 0 THEN pd ELSE LocaleCompare(b.updated, a.updated)

RECURSIVE InsertReview(_, _)
InsertReview(s, t) ==
    IF s = <<>> THEN <<t>>
    ELSE IF ReviewCompare(t, Head(s)) < 0 THEN <<t>> \o s
    ELSE <<Head(s)>> \o InsertReview(Tail(s), t)

\* reviewQueue.sort(...), a stable sort
RECURSIVE SortReview(_)
SortReview(s) ==
    IF s = <<>> THEN <<>>
    ELSE InsertReview(SortReview(SubSeq(s, 1, Len(s) - 1)), s[Len(s)])

\* standupData.content || "" in its own try block
StandupContentOf(res) ==
    IF Parses(res) /\ "content" \in DOMAIN res.body THEN res.body.content ELSE ""

\* the outer try block throws: the projects fetch rejects or its body is
\* no JSON
HomeThrows(res) == ~Parses(res.proj)

\* state.homeData after the call got the answers res
HomeDataAfter(old, res) ==
    IF HomeThrows(res)
    THEN [old EXCEPT !.loading = FALSE, !.error = Text("Error")]
    ELSE [projects |-> ProjectCards(ProjectsOf(res.proj.body), res.boards),
          reviewQueue |-> SortReview(Collected(ProjectsOf(res.proj.body),
                                               res.boards, 1)),
          standupContent |-> StandupContentOf(res.standup),
          loading |-> FALSE, error |-> Null]

\* a call of loadHomeData that waits for its answers
HomeCall == [fn |-> "loadHomeData", phase |-> "sent"]

\* loadHomeData up to its first await
LoadHomeDataStart ==
    /\ HomeCall \notin calls
    /\ homeData' = [homeData EXCEPT !.loading = TRUE, !.error = Null]
    /\ calls' = calls \cup {HomeCall}
    /\ UNCHANGED <<clock, board, projectsFile, standupFile, reqs, last, trail,
                   moves, gitVars, projectBoard, view, host, parsed, hist>>

\* loadHomeData from its first await to its end, the fetches answered by res
LoadHomeDataEnd(c, res) ==
    /\ c \in calls
    /\ c.fn = "loadHomeData"
    /\ c.phase = "sent"
    /\ homeData' = HomeDataAfter(homeData, res)
    /\ calls' = calls \ {c}
    /\ hist' = [hist EXCEPT !.loadedFrom = res]
    /\ UNCHANGED <<clock, board, projectsFile, standupFile, reqs, last, trail,
                   moves, gitVars, projectBoard, view, host, parsed>>

NextHome ==
    \/ LoadHomeDataStart
    \/ \E c \in calls, res \in HomeAnswers : LoadHomeDataEnd(c, res)

\* the page is opened: the server files are in place, nothing is loaded
InitHomeView == Init /\ board = InitDoc

SpecHome == InitHomeView /\ [][NextHome]_vars

\* the answers of the call that filled homeData (history)
HomeLoaded == hist.loadedFrom # Null /\ ~HomeThrows(hist.loadedFrom)

LoadedFrom == hist.loadedFrom

LoadedProjects == ProjectsOf(LoadedFrom.proj.body)

LoadedTasks(i) == TasksOf(BoardOf(LoadedFrom.boards[i]))

\* the task qualifies for the review queue: it is classified review, or its
\* review type is sam-required and it is not classified done
Qualifies(t) ==
    \/ Classify(t.state) = "review"
    \/ (t.reviewType = "sam-required" /\ Classify(t.state) # "done")

\* the places of the queue that hold task j of project i
QueuePlaces(i, j) ==
    {k \in 1..Len(homeData.reviewQueue) :
        /\ homeData.reviewQueue[k].projectId = LoadedProjects[i].id
        /\ homeData.reviewQueue[k].taskId = LoadedTasks(i)[j].id}

\* C21: a task is in the review queue exactly if it is classified review,
\* or its reviewType is "sam-required" and its state is neither done nor
\* completed; a task that qualifies is in the queue exactly once, and the
\* queue holds nothing else.
C21_ReviewQueueMembership ==
    HomeLoaded =>
        /\ \A i \in 1..Len(LoadedProjects) : \A j \in 1..Len(LoadedTasks(i)) :
               Cardinality(QueuePlaces(i, j))
                   = IF Qualifies(LoadedTasks(i)[j]) THEN 1 ELSE 0
        /\ \A k \in 1..Len(homeData.reviewQueue) :
               \E i \in 1..Len(LoadedProjects) : \E j \in 1..Len(LoadedTasks(i)) :
                   k \in QueuePlaces(i, j)

\* the task that the item at place k of the queue was made of
QueuedTask(k) ==
    LET i == CHOOSE i \in 1..Len(LoadedProjects) :
                 LoadedProjects[i].id = homeData.reviewQueue[k].projectId
        j == CHOOSE j \in 1..Len(LoadedTasks(i)) :
                 LoadedTasks(i)[j].id = homeData.reviewQueue[k].taskId
    IN  LoadedTasks(i)[j]

\* C22: the review queue is in the order of the priority rank of the board
\* columns, p0 before p1 before p2 before p3 before a task without a known
\* priority, and tasks of one rank are in the order of their updated stamp,
\* the latest first; the queue is a function of the answers.
C22_ReviewQueueOrder ==
    HomeLoaded =>
        /\ \A k, l \in 1..Len(homeData.reviewQueue) :
               k < l =>
                   \/ priorityOrder(QueuedTask(k).priority)
                          < priorityOrder(QueuedTask(l).priority)
                   \/ /\ priorityOrder(QueuedTask(k).priority)
                             = priorityOrder(QueuedTask(l).priority)
                      /\ homeData.reviewQueue[k].updated
                             >= homeData.reviewQueue[l].updated
        /\ homeData = HomeDataAfter(homeData, LoadedFrom)

\* C23: every project has a card; its tasksInProgress is the number of its
\* tasks classified in-progress, its tasksNeedingReview the number of its
\* tasks that qualify for the review queue, its lastUpdate the lastUpdated
\* of the board or null; a project whose board fetch failed has the counts
\* 0 and the lastUpdate null.
C23_ProjectCards ==
    HomeLoaded =>
        /\ Len(homeData.projects) = Len(LoadedProjects)
        /\ \A i \in 1..Len(LoadedProjects) :
               LET card == homeData.projects[i]
                   b == BoardOf(LoadedFrom.boards[i])
               IN  /\ card.project = LoadedProjects[i]
                   /\ card.tasksInProgress
                          = Cardinality({j \in 1..Len(LoadedTasks(i)) :
                                Classify(LoadedTasks(i)[j].state) = "in-progress"})
                   /\ card.tasksNeedingReview
                          = Cardinality({j \in 1..Len(LoadedTasks(i)) :
                                Qualifies(LoadedTasks(i)[j])})
                   /\ card.lastUpdate
                          = IF "lastUpdated" \in DOMAIN b THEN b.lastUpdated
                            ELSE Absent
                   /\ ~Parses(LoadedFrom.boards[i]) =>
                          /\ card.tasksInProgress = 0
                          /\ card.tasksNeedingReview = 0
                          /\ card.lastUpdate = Absent

----------------------------------------------------------------------------
(* The standup text of the home view: parseStandup.  A line is a sequence  *)
(* of tokens: the bullet prefix "- ", the bold mark "**", a blank " ", a   *)
(* section word and other words.                                           *)

\* the longest standup text, in lines
MaxLines == 3

StandupLines ==
    {<<"#", " ", "Completed">>, <<"In Progress">>, <<"Needs Attention", "!">>,
     <<"- ", "x">>, <<" ", "- ", "**", "y", "**", " ">>, <<"z">>, <<>>,
     <<"- ", "Completed", " ", "x">>}

StandupContents == UNION {[1..n -> StandupLines] : n \in 0..MaxLines}

\* line.trim()
RECURSIVE TrimStart(_)
TrimStart(line) ==
    IF line # <<>> /\ Head(line) = " " THEN TrimStart(Tail(line)) ELSE line

RECURSIVE TrimEnd(_)
TrimEnd(line) ==
    IF line # <<>> /\ line[Len(line)] = " "
    THEN TrimEnd(SubSeq(line, 1, Len(line) - 1)) ELSE line

Trim(line) == TrimEnd(TrimStart(line))

\* trimmed.includes(word)
Includes(line, word) == \E i \in 1..Len(line) : line[i] = word

\* trimmed.startsWith("- **") || trimmed.startsWith("- ")
IsBullet(trimmed) == trimmed # <<>> /\ Head(trimmed) = "- "

NotBold(token) == token # "**"

\* trimmed.replace(/^- /, "").replace(/\*\*/g, "")
BulletText(trimmed) == SelectSeq(Tail(trimmed), NotBold)

\* the section that the words of the line name, "" if none
SectionOf(trimmed) ==
    IF Includes(trimmed, "Completed") THEN "completed"
    ELSE IF Includes(trimmed, "In Progress") THEN "inProgress"
    ELSE IF Includes(trimmed, "Needs Attention") THEN "needsAttention"
    ELSE ""

NoSections == [completed |-> <<>>, inProgress |-> <<>>, needsAttention |-> <<>>]

\* the text is pushed to the list of the current section, if there is one
PushTo(lists, section, text) ==
    IF section = "" THEN lists
    ELSE [lists EXCEPT ![section] = Append(@, text)]

\* the loop over the lines from line i on: the section words are looked
\* for first, the bullet prefix after them
RECURSIVE ParseFrom(_, _, _, _)
ParseFrom(lines, i, currentSection, lists) ==
    IF i > Len(lines) THEN lists
    ELSE LET trimmed == Trim(lines[i])
         IN  IF SectionOf(trimmed) # ""
             THEN ParseFrom(lines, i + 1, SectionOf(trimmed), lists)
             ELSE IF IsBullet(trimmed)
             THEN ParseFrom(lines, i + 1, currentSection,
                            PushTo(lists, currentSection, BulletText(trimmed)))
             ELSE ParseFrom(lines, i + 1, currentSection, lists)

parseStandup(content) == ParseFrom(content, 1, "", NoSections)

\* the home view parses the standup text it shows
ParseStandup(content) ==
    /\ parsed' = [called |-> TRUE, content |-> content,
                  result |-> parseStandup(content)]
    /\ UNCHANGED <<clock, board, projectsFile, standupFile, reqs, last, trail,
                   moves, gitVars, uiVars, homeData, host, hist>>

NextStandup == \E content \in StandupContents : ParseStandup(content)

SpecStandup == InitHomeView /\ [][NextStandup]_vars

\* the lists in which every bullet line goes to the section that is current
\* at the line, and a line that is no bullet names the section by its words
RECURSIVE BulletsFrom(_, _, _, _)
BulletsFrom(lines, i, currentSection, lists) ==
    IF i > Len(lines) THEN lists
    ELSE LET trimmed == Trim(lines[i])
         IN  IF IsBullet(trimmed)
             THEN BulletsFrom(lines, i + 1, currentSection,
                              PushTo(lists, currentSection, BulletText(trimmed)))
             ELSE IF SectionOf(trimmed) # ""
             THEN BulletsFrom(lines, i + 1, SectionOf(trimmed), lists)
             ELSE BulletsFrom(lines, i + 1, currentSection, lists)

\* C24: parseStandup returns for every text, and what it returns depends on
\* the text only; every bullet line is appended, without its bold marks, to
\* the section that is current at the line, bullet lines before the first
\* section marker and lines that are no bullets are dropped: the three
\* lists hold exactly the bullet lines that follow a section marker, in
\* their order.
C24_StandupBullets ==
    parsed.called =>
        /\ DOMAIN parsed.result = {"completed", "inProgress", "needsAttention"}
        /\ parsed.result = BulletsFrom(parsed.content, 1, "", NoSections)

----------------------------------------------------------------------------
(* The pollers of the host: start, stop and the timer callbacks.           *)

\* the timer ids that setInterval hands out
MaxTimers == 2

NodesPollMs == 5000

LogsPollMs == 2000

DebugPollMs == 3000

HomePollMs == 30000

BoardPollMs == 30000

\* the period that the poller gives to setInterval
PollMs(k) ==
    IF k = "nodes" THEN NodesPollMs
    ELSE IF k = "logs" THEN LogsPollMs
    ELSE IF k = "debug" THEN DebugPollMs
    ELSE IF k = "home" THEN HomePollMs
    ELSE BoardPollMs

\* variant: start never finds the poller running
RunningNever(h, k) == FALSE

\* host.<k>PollInterval != null
Running(h, k) == h.interval[k] # NoTimer

\* !host.activeProjectId is false
Truthy(a) == a # Null /\ a.text # <<>>

\* the loader that start calls itself: the initial load of the home poller
StartLoad(k) == IF k = "home" THEN "home" ELSE "none"

\* variant: the callbacks do not look at the tab
TickLoadAnyTab(k, h) ==
    IF k = "projectBoard" THEN (IF Truthy(h.activeProjectId) THEN "board" ELSE "none")
    ELSE k

\* the loader that the timer callback of poller k calls, "none" if it
\* returns early
TickLoad(k, h) ==
    IF k = "nodes" THEN "nodes"
    ELSE IF k = "logs" THEN (IF h.tab # "logs" THEN "none" ELSE "logs")
    ELSE IF k = "debug" THEN (IF h.tab # "debug" THEN "none" ELSE "debug")
    ELSE IF k = "home" THEN (IF h.tab # "home" THEN "none" ELSE "home")
    ELSE IF h.tab # "home" \/ ~Truthy(h.activeProjectId) THEN "none" ELSE "board"

\* void loadHomeData(host), void loadProjectBoard(host, activeProjectId):
\* the loader runs up to its first await; the loaders of the nodes, logs
\* and debug views keep their state elsewhere
Invoke(load) ==
    /\ homeData' = IF load = "home"
                   THEN [homeData EXCEPT !.loading = TRUE, !.error = Null]
                   ELSE homeData
    /\ projectBoard' = IF load = "board"
                       THEN [projectBoard EXCEPT !.loading = TRUE, !.error = Null]
                       ELSE projectBoard
    /\ calls' = IF load = "home" THEN calls \cup {HomeCall}
                ELSE IF load = "board"
                THEN calls \cup {Call("loadProjectBoard", host.activeProjectId.text, <<>>)}
                ELSE calls

Event(kind, k, load, change) ==
    [kind |-> kind, poller |-> k, load |-> load, change |-> change]

\* start<K>Polling(host)
StartPolling(k) ==
    /\ Running(host, k) \/ host.ids < MaxTimers
    /\ IF Running(host, k)
       THEN /\ host' = host
            /\ Invoke("none")
            /\ hist' = [hist EXCEPT !.event = Event("start", k, "none", FALSE)]
       ELSE /\ Invoke(StartLoad(k))
            /\ host' = [host EXCEPT
                           !.ids = @ + 1,
                           !.interval[k] = host.ids + 1,
                           !.timers = @ \cup {[kind |-> k, id |-> host.ids + 1,
                                               every |-> PollMs(k)]}]
            /\ hist' = [hist EXCEPT !.event = Event("start", k, StartLoad(k), TRUE)]
    /\ UNCHANGED <<clock, board, projectsFile, standupFile, reqs, last, trail,
                   moves, gitVars, view, parsed>>

\* stop<K>Polling(host)
StopPolling(k) ==
    /\ IF ~Running(host, k)
       THEN /\ host' = host
            /\ hist' = [hist EXCEPT !.event = Event("stop", k, "none", FALSE)]
       ELSE /\ host' = [host EXCEPT
                           !.interval[k] = NoTimer,
                           !.timers = {t \in @ : t.id # host.interval[k]}]
            /\ hist' = [hist EXCEPT !.event = Event("stop", k, "none", TRUE)]
    /\ UNCHANGED <<clock, board, projectsFile, standupFile, reqs, last, trail,
                   moves, gitVars, uiVars, homeData, parsed>>

\* the callback of a live timer runs
TimerTick(t) ==
    /\ t \in host.timers
    /\ Invoke(TickLoad(t.kind, host))
    /\ hist' = [hist EXCEPT
                   !.event = Event("tick", t.kind, TickLoad(t.kind, host),
                                   TickLoad(t.kind, host) # "none")]
    /\ UNCHANGED <<clock, board, projectsFile, standupFile, reqs, last, trail,
                   moves, gitVars, view, host, parsed>>

Tabs == {"home", "logs", "debug"}

\* the user opens a tab
SetTab(tab) ==
    /\ host' = [host EXCEPT !.tab = tab]
    /\ UNCHANGED <<clock, board, projectsFile, standupFile, reqs, last, trail,
                   moves, gitVars, uiVars, homeData, parsed, hist>>

ActiveProjectIds == {Null, Text(<<>>), Text(BoardId)}

\* the user opens or leaves a project
SetActiveProject(a) ==
    /\ host' = [host EXCEPT !.activeProjectId = a]
    /\ UNCHANGED <<clock, board, projectsFile, standupFile, reqs, last, trail,
                   moves, gitVars, uiVars, homeData, parsed, hist>>

\* the answers that the loads of the home poller get; the end of a board
\* load is in NextUi and NextSwitch
PollAnswers ==
    {[proj |-> Rejected, boards |-> <<>>, standup |-> Rejected],
     [proj |-> OneProject, boards |-> <<Rejected>>, standup |-> StandupAnswer]}

NextPoll ==
    \/ \E k \in Pollers : StartPolling(k)
    \/ \E k \in Pollers : StopPolling(k)
    \/ \E t \in host.timers : TimerTick(t)
    \/ \E tab \in Tabs : SetTab(tab)
    \/ \E a \in ActiveProjectIds : SetActiveProject(a)
    \/ \E c \in calls, res \in PollAnswers : LoadHomeDataEnd(c, res)

SpecPoll == InitHomeView /\ [][NextPoll]_vars

\* C25: starting the home poller loads the home data once and sets a timer
\* of 30 seconds; a tick of that timer loads the home data again if the tab
\* is home and does nothing on another tab; a tick of the project board
\* timer loads the board of the active project if the tab is home and an
\* active project id is set, and does nothing otherwise.
C25_PollingLoads ==
    [][/\ (StartPolling("home") /\ host.interval["home"] = NoTimer) =>
              /\ homeData'.loading /\ HomeCall \in calls'
              /\ \E t \in host'.timers : t.kind = "home" /\ t.every = 30000
       /\ \A t \in host.timers :
              (TimerTick(t) /\ t.kind = "home") =>
                  IF host.tab = "home"
                  THEN /\ homeData' = [homeData EXCEPT !.loading = TRUE,
                                                       !.error = Null]
                       /\ HomeCall \in calls'
                  ELSE homeData' = homeData /\ calls' = calls
       /\ \A t \in host.timers :
              (TimerTick(t) /\ t.kind = "projectBoard") =>
                  IF host.tab = "home" /\ host.activeProjectId = Text(BoardId)
                  THEN /\ projectBoard'.loading
                       /\ Call("loadProjectBoard", BoardId, <<>>) \in calls'
                  ELSE projectBoard' = projectBoard /\ calls' = calls]_vars

C25_Witness ==
    /\ hist.event = Event("tick", "home", "home", TRUE)
    /\ host.tab = "home"
    /\ homeData.loading
    /\ homeData.projects # <<>>

\* C30: a poller has at most one live timer, and its interval field is
\* non-null exactly when it has one, which the field names; start on a
\* running poller creates no timer and loads nothing, stop clears the timer
\* and resets the field, stop on a stopped poller does nothing.
C30_OneTimerPerPoller ==
    /\ [](\A k \in Pollers :
             /\ Cardinality({t \in host.timers : t.kind = k}) <= 1
             /\ (host.interval[k] # NoTimer) <=> (\E t \in host.timers : t.kind = k)
             /\ \A t \in host.timers : t.kind = k => t.id = host.interval[k])
    /\ [][\A k \in Pollers :
             /\ (StartPolling(k) /\ host.interval[k] # NoTimer) =>
                    host' = host /\ homeData' = homeData /\ calls' = calls
             /\ StopPolling(k) =>
                    /\ host'.interval[k] = NoTimer
                    /\ ~\E t \in host'.timers : t.kind = k
                    /\ \A t \in host.timers : t.kind # k => t \in host'.timers
                    /\ host.interval[k] = NoTimer => host' = host]_vars

C30_Witness ==
    /\ hist.event = Event("start", "home", "none", FALSE)
    /\ host.interval["home"] # NoTimer
    /\ Cardinality(host.timers) = 2

----------------------------------------------------------------------------
(* Loads of two projects and a move, with their responses in any order.    *)

\* a project that has no board file and is not in projects.json
OtherId == <<"b">>

SwitchIds == {BoardId, OtherId}

SwitchRuns == {GitLogFail, [ok |-> TRUE, lines |-> <<>>]}

\* moveTask up to its await; the loads that wait for their responses were
\* called before it
MoveTaskStart(projectId, taskId, newState) ==
    /\ hist.boardFrom # "move"
    /\ \A c \in calls : c.fn # "moveTask"
    /\ calls' = {[c EXCEPT !.stale = TRUE] : c \in calls}
                \cup {[Call("moveTask", projectId, <<>>)
                          EXCEPT !.hash = << <<taskId, newState>> >>]}
    /\ UNCHANGED <<clock, board, projectsFile, standupFile, reqs, last, trail,
                   moves, gitVars, projectBoard, view, homeVars>>

\* the server handles POST /api/board/<projectId>/move, body and all
ServeMove(c) ==
    /\ c \in calls
    /\ c.phase = "sent"
    /\ c.fn = "moveTask"
    /\ moves < MaxMoves
    /\ LET res == MoveEndResult(c.projectId, c.hash, "ok", clock, clock, clock)
       IN  /\ last' = res.out
           /\ board' = IF Segments(c.projectId) = <<BoardId>> THEN res.file ELSE board
           /\ trail' = IF res.out.op = "move" /\ res.out.writes = 1
                          /\ res.out.status = 200
                       THEN LastTwo(Append(trail, MoveSummary(res.out, moves + 1, {})))
                       ELSE trail
           /\ calls' = (calls \ {c}) \cup
                       {[c EXCEPT !.phase = "answered", !.res.board = res.out]}
    /\ moves' = moves + 1
    /\ UNCHANGED <<clock, projectsFile, standupFile, reqs, gitVars, projectBoard,
                   view, homeVars>>

\* moveTask after its await: the board of an ok response is stored
MoveTaskEnd(c) ==
    /\ c \in calls
    /\ c.fn = "moveTask"
    /\ c.phase \in {"answered", "rejected"}
    /\ IF c.phase = "answered" /\ ResOk(c.res.board) /\ IsJson(c.res.board.body)
       THEN /\ projectBoard' = [projectBoard EXCEPT !.board = c.res.board.body]
            /\ hist' = [hist EXCEPT !.boardFrom = "move"]
       ELSE UNCHANGED <<projectBoard, hist>>
    /\ calls' = calls \ {c}
    /\ UNCHANGED <<clock, board, projectsFile, standupFile, reqs, last, trail,
                   moves, gitVars, view, homeData, host, parsed>>

NextSwitch ==
    \/ \E p \in SwitchIds : LoadProjectBoardStart(p)
    \/ MoveTaskStart(BoardId, "t1", "done")
    \/ \E c \in calls : FetchFails(c)
    \/ \E c \in calls, run \in SwitchRuns : ServeLoad(c, run)
    \/ \E c \in calls : ServeMove(c)
    \/ \E c \in calls : LoadProjectBoardEnd(c)
    \/ \E c \in calls : MoveTaskEnd(c)

SpecSwitch == InitHomeView /\ [][NextSwitch]_vars

\* C28: when no load of a board is waiting any more, the project, board and
\* commits in state.projectBoard are those of the project that was asked
\* for last, in whatever order the responses came; and the end of a load
\* that was called before a moveTask does not replace the board that the
\* moveTask stored.
C28_LatestRequestWins ==
    /\ []((/\ \A c \in calls : c.fn # "loadProjectBoard"
           /\ hist.applied # Null
           /\ projectBoard.error = Null)
              => hist.applied = hist.asked)
    /\ [][\A c \in calls :
             (LoadProjectBoardEnd(c) /\ c.stale /\ hist.boardFrom = "move")
                 => projectBoard'.board = projectBoard.board]_vars

----------------------------------------------------------------------------
(* The three loaders to their end.  Every fetch is settled (answered or    *)
(* rejected) and the continuation of a settled await runs: weak fairness   *)
(* on these steps.  A loader is called again when its last call has ended. *)

\* the answers that a call of loadHomeData gets
LoadAnswers ==
    PollAnswers \cup
    {[proj |-> Answer(200, Garbage), boards |-> <<>>, standup |-> Rejected],
     [proj |-> Answer(500, ErrorBody("EACCES")), boards |-> <<>>,
      standup |-> StandupAnswer]}

\* a call of fn waits for its answers or for its continuation
Pending(fn) == \E c \in calls : c.fn = fn

\* the fetch of a call of fn is settled
Settle(fn) ==
    \E c \in calls :
        /\ c.fn = fn
        /\ \/ FetchFails(c)
           \/ \E run \in GitShowRuns : ServeDiff(c, run)
           \/ \E run \in ApiLogRuns : ServeLoad(c, run)

NextLoad ==
    \/ \E h \in UiHashes : ~Pending("loadCommitDiff") /\ LoadCommitDiffStart(BoardId, h)
    \/ \E p \in {BoardId, <<".", ".">>} :
           ~Pending("loadProjectBoard") /\ LoadProjectBoardStart(p)
    \/ LoadHomeDataStart
    \/ Settle("loadCommitDiff")
    \/ Settle("loadProjectBoard")
    \/ \E c \in calls : LoadCommitDiffEnd(c)
    \/ \E c \in calls : LoadProjectBoardEnd(c)
    \/ \E c \in calls, res \in LoadAnswers : LoadHomeDataEnd(c, res)

SpecLoad ==
    /\ InitApi
    /\ [][NextLoad]_vars
    /\ WF_vars(Settle("loadCommitDiff"))
    /\ WF_vars(Settle("loadProjectBoard"))
    /\ WF_vars(\E c \in calls : LoadCommitDiffEnd(c))
    /\ WF_vars(\E c \in calls : LoadProjectBoardEnd(c))
    /\ WF_vars(\E c \in calls, res \in LoadAnswers : LoadHomeDataEnd(c, res))

\* a fetch of the load was rejected, or the projects or the board response
\* has an error status or a body that is no JSON
LoadFailed(c) ==
    \/ c.phase = "rejected"
    \/ ~ResOk(c.res.proj) \/ ~IsJson(c.res.proj.body)
    \/ ~ResOk(c.res.board) \/ ~IsJson(c.res.board.body)

\* the projects fetch of the home load was rejected, or its response has an
\* error status or a body that is no JSON
HomeFailed(res) == ~Parses(res.proj) \/ ~ResOk(res.proj)

\* every call of a loader ends and leaves the loading flag false
LoadersEnd ==
    /\ Pending("loadProjectBoard")
           ~> (~Pending("loadProjectBoard") /\ ~projectBoard.loading)
    /\ Pending("loadHomeData") ~> (~Pending("loadHomeData") /\ ~homeData.loading)
    /\ Pending("loadCommitDiff")
           ~> (~Pending("loadCommitDiff") /\ ~projectBoard.commitDiffLoading)

\* C29: every call of loadProjectBoard and of loadHomeData ends with the
\* loading flag false and every call of loadCommitDiff with
\* commitDiffLoading false, whether the fetches are answered with success,
\* answered with an error status, answered with a body that is no JSON, or
\* rejected; a call that failed leaves the data that was loaded before as
\* it was and sets the error field.
C29_LoadersEndAndKeepData ==
    /\ LoadersEnd
    /\ [][/\ \A c \in calls :
                (LoadProjectBoardEnd(c) /\ LoadFailed(c)) =>
                    /\ projectBoard'.error # Null
                    /\ projectBoard' = [projectBoard EXCEPT
                                           !.loading = FALSE,
                                           !.error = projectBoard'.error]
          /\ \A c \in calls, res \in LoadAnswers :
                (LoadHomeDataEnd(c, res) /\ HomeFailed(res)) =>
                    /\ homeData'.error # Null
                    /\ homeData' = [homeData EXCEPT
                                       !.loading = FALSE,
                                       !.error = homeData'.error]]_vars

====
